---- MODULE Spec2Model ----
(***************************************************************************)
(* Model of the offline sync manager (class OfflineSync) of Access Nature. *)
(*                                                                         *)
(* JavaScript runs one task at a time and yields only at an await, so each *)
(* action below is the code between two awaits of one async function (an   *)
(* IndexedDB transaction of one get followed by one put is atomic, as in   *)
(* IndexedDB).  A remote call (addDoc, uploadString) and the store write   *)
(* that follows its result are one action: nobody sees the result of the   *)
(* remote call before that write.  The outcome of a remote call and the    *)
(* value of navigator.onLine are inputs.                                   *)
(***************************************************************************)
EXTENDS Integers, FiniteSets, Sequences, TLC

\* Bounds of the exploration.
MaxRecords == 1    \* a save is explored while the stores have held fewer records
MaxStored == 2     \* records an earlier session has left pending in the stores
MaxRetry == 1      \* failed upload attempts explored in all
MaxWrites == 2     \* remote documents explored in all
MaxTimers == 1     \* settle timers pending at once
MaxPasses == 2     \* syncAllPending calls past their entry at once
MaxItems == 2      \* photos and surveys queued in all
MaxFails == 3      \* failed remote calls of the drains explored in all
MaxOks == 2        \* successful remote calls of the drains explored in all
MaxDrains == 2     \* drain calls awaiting a remote call at once
MaxPrunes == 2     \* prune timers pending at once
MaxMails == 2      \* processEmailQueue calls past their return at once
MaxSends == 2      \* relay sends of one entry that resolve
MaxUpgrades == 2   \* upgradeneeded events handled in all
MaxWatches == 4    \* watchPosition calls in all
MaxPoints == 3     \* route points recorded at once
MaxPrompts == 2    \* stop calls awaiting the save dialogs at once

NoUser == "nouser"
Users == {"u1"}

\* null of a key, a cloud id or a timestamp (all three are numbers here)
NoId == 0

\* The two IndexedDB object stores for artifacts; the code treats them alike.
Stores == {"pending_routes", "pending_guides"}

\* the object stores the upgrade handler of openDatabase creates
StoreNames == Stores \cup {"email_queue"}

\* The syncAllPending calls that are past their entry (the code has no names
\* for them: a call takes the first free number).
Passes == 1..MaxPasses

MaxKey == IF MaxStored > MaxRecords THEN MaxStored ELSE MaxRecords
Keys == 1..MaxKey

VARIABLES
  dbOpen,          \* this.db # null
  isOnline,        \* this.isOnline
  syncInProgress,  \* this.syncInProgress
  emailJsLoaded,   \* this.emailJsLoaded
  currentUser,     \* auth.currentUser
  store,           \* store[s]: localId -> record of object store s
  nextKey,         \* nextKey[s]: the autoIncrement key generator of s
  email_queue,     \* id -> entry of object store email_queue
  cloudDocs,       \* cloudDocs[s][k]: documents addDoc has created from record k
  save,            \* the saveRoute / saveTrailGuide call in flight, or the last one
  sync,            \* sync[p]: the syncAllPending call number p
  single,          \* the uploadSingleRoute / uploadSingleGuide call in flight
  syncNotice,      \* the message the last syncAllPending or uploadSingle call
                   \* has returned early with
  settleTimers,    \* pending setTimeout(..., 3000) callbacks of the 'online' listener
  flat,            \* flat[q]: the array of queue q as localStorage holds it
  nextItem,        \* the items queued so far, plus one (ids are unique)
  drain,           \* drain[d]: the processPhotoQueue / processSurveyQueue call number d
  prunes,          \* pending setTimeout(..., 5000) callbacks of the drains, oldest first
  remoteOk,        \* remoteOk[id]: remote calls for item id that have succeeded
  remoteFail,      \* remoteFail[id]: remote calls for item id that have failed
  emailConfig,     \* settings.emailjs has publicKey, serviceId and templateId
  mail,            \* mail[d]: the processEmailQueue call number d
  relaySends,      \* relaySends[id]: emailjs.send calls for entry id that resolved
  objectStoreNames, \* db.objectStoreNames of the database AccessNaturePending
  upgrades,        \* upgradeneeded events the handler of openDatabase has handled
  allQueues,       \* how the last processAllQueues call has ended: none, offline
                   \* (it warned and returned) or rejected (it threw)
  clear,           \* the clearUploaded call in flight
  isTracking,      \* TrackingController: this.isTracking
  isPaused,        \* TrackingController: this.isPaused
  watchId,         \* TrackingController: this.watchId (NoId: null)
  watchIDs,        \* the watches navigator.geolocation holds
  nextWatchId,     \* the id the next watchPosition call returns
  routeData,       \* appState.getRouteData().length
  savePrompts      \* stop calls that await the dialogs of promptForSave

schemaVars == <<objectStoreNames, upgrades>>
trackVars == <<isTracking, isPaused, watchId, watchIDs, nextWatchId, routeData, savePrompts>>
\* what no operation of OfflineSync writes after initialize
cfgVars == <<dbOpen, emailJsLoaded, currentUser, emailConfig, schemaVars, trackVars>>
storeVars == <<store, nextKey, email_queue>>
cloudVars == <<cloudDocs>>
connVars == <<settleTimers>>
flatVars == <<flat, nextItem, drain, prunes, remoteOk, remoteFail, allQueues>>
mailVars == <<mail, relaySends>>

vars == <<isOnline, syncInProgress, cfgVars, storeVars, cloudVars, save, sync,
          single, clear, syncNotice, connVars, flatVars, mailVars>>

----------------------------------------------------------------------------
(* IndexedDB object stores: a store is a function from its keys to records. *)

\* store.add(record) under key k
Add(f, k, r) == [x \in (DOMAIN f) \cup {k} |-> IF x = k THEN r ELSE f[x]]

\* store.delete(k)
Delete(f, k) == [x \in (DOMAIN f) \ {k} |-> f[x]]

\* the record saveRoute / saveTrailGuide builds (payload, owner and creation
\* timestamp left out: no operation reads or changes them)
pendingRoute ==
  [status |-> "pending", retryCount |-> 0, cloudId |-> NoId, uploadedAt |-> NoId]

\* the put of a record that only has its status set
markRouteUploadedStatusOnly(f, localId, cloudId, now) ==
  IF localId \in DOMAIN f
  THEN [f EXCEPT ![localId].status = "uploaded"]
  ELSE f

\* a put of the uploaded record whether the get has found it or not
markRouteUploadedUpsert(f, localId, cloudId, now) ==
  Add(f, localId,
      [(IF localId \in DOMAIN f THEN f[localId] ELSE pendingRoute)
         EXCEPT !.status = "uploaded", !.cloudId = cloudId, !.uploadedAt = now])

\* markRouteUploaded / markGuideUploaded: one readwrite transaction, get then put
markRouteUploaded(f, localId, cloudId, now) ==
  IF localId \in DOMAIN f
  THEN [f EXCEPT ![localId] =
          [@ EXCEPT !.status = "uploaded", !.cloudId = cloudId, !.uploadedAt = now]]
  ELSE f

\* the put of the record as the pass read it at its start, one retry more
incrementRetryCountOfSnapshot(f, localId) ==
  IF localId \in DOMAIN f
  THEN [f EXCEPT ![localId] = [pendingRoute EXCEPT !.retryCount = f[localId].retryCount + 1]]
  ELSE f

\* incrementRetryCount: one readwrite transaction, get then put
incrementRetryCount(f, localId) ==
  IF localId \in DOMAIN f
  THEN [f EXCEPT ![localId].retryCount = @ + 1]
  ELSE f

\* getPendingRoutes / getPendingGuides alone: getAll, whatever the status
getAllKeys(f) == DOMAIN f

\* getPendingRoutes / getPendingGuides followed by the filter on status
pendingKeys(f) == {k \in DOMAIN f : f[k].status = "pending"}

\* a count of the records of the two stores whatever their status
getStoredCount ==
  IF dbOpen
  THEN Cardinality(DOMAIN store["pending_routes"])
       + Cardinality(DOMAIN store["pending_guides"])
  ELSE 0

\* getPendingCount: it catches the error of a closed database and returns 0
getPendingCount ==
  IF dbOpen
  THEN Cardinality(pendingKeys(store["pending_routes"]))
       + Cardinality(pendingKeys(store["pending_guides"]))
  ELSE 0

\* an entry whose data is the record as the store holds it when the entry is
\* added
emailItemOfStore(s, localId) ==
  [type |-> s, localId |-> localId,
   data |-> IF localId \in DOMAIN store[s] THEN store[s][localId] ELSE pendingRoute,
   sent |-> FALSE, retryCount |-> 0]

\* the entry queueEmailBackup adds: a copy of the record as it is at save time
emailItem(s, localId) ==
  [type |-> s, localId |-> localId, data |-> pendingRoute,
   sent |-> FALSE, retryCount |-> 0]

Min(S) == CHOOSE x \in S : \A y \in S : x <= y

\* a processEmailQueue call before it has read the store
IdleMail == [pc |-> "idle", items |-> << >>, i |-> 0]

freeMails == {d \in 1..MaxMails : mail[d].pc = "idle"}

\* processEmailQueue without its first line
processEmailQueueUnguarded(online) ==
  \/ /\ freeMails # {}
     /\ mail' = [mail EXCEPT ![Min(freeMails)].pc = "query"]
  \/ UNCHANGED mail

\* processEmailQueue up to its return, with this.isOnline as the caller left
\* it: without the relay library or offline it returns at once; else it asks
\* the index 'sent' for the entries with sent = false and returns, and the
\* loop runs when the request succeeds.  The request may not succeed: getAll
\* throws (false is no valid key of an index for an engine that follows the
\* IndexedDB standard) and the catch logs it, or the request fails and nothing
\* handles it; the queue is then left alone.
processEmailQueueEntry(online) ==
  IF ~emailJsLoaded \/ ~online
  THEN UNCHANGED mail
  ELSE \/ /\ freeMails # {}
          /\ mail' = [mail EXCEPT ![Min(freeMails)].pc = "query"]
       \/ UNCHANGED mail

processEmailQueue == processEmailQueueEntry(isOnline) /\ UNCHANGED email_queue

\* addDoc resolves: a new document, whose id is its number among the documents
\* created from record k (unique per record)
addDoc(s, k) == [cloudDocs EXCEPT ![s][k] = @ + 1]
docId(s, k) == cloudDocs[s][k] + 1

\* what the exploration has used of its bounds
totalWrites ==
  LET n(s) == LET sum[k \in 0..MaxKey] ==
                    IF k = 0 THEN 0 ELSE sum[k - 1] + cloudDocs[s][k]
              IN sum[MaxKey]
  IN n("pending_routes") + n("pending_guides")
totalRetries ==
  LET n(s) == LET sum[k \in 0..MaxKey] ==
                    IF k = 0 THEN 0
                    ELSE sum[k - 1] + (IF k \in DOMAIN store[s]
                                       THEN store[s][k].retryCount ELSE 0)
              IN sum[MaxKey]
  IN n("pending_routes") + n("pending_guides")

\* new Date() as markRouteUploaded reads it after the n-th remote write of a
\* record: time n (later writes of the record are marked later)
now(s, k) == cloudDocs[s][k] + 1

----------------------------------------------------------------------------
(* saveRoute / saveTrailGuide: one call at a time *)

IdleSave == [pc |-> "idle", store |-> "pending_routes", localId |-> NoId,
             user |-> NoUser, onlineAtCall |-> FALSE,
             retLocal |-> NoId, retCloud |-> NoId, toast |-> "none"]

\* return { localId, cloudId } after the toast of the path taken; the
\* arguments of the call are gone
SaveReturn(cloudId, toast) ==
  [IdleSave EXCEPT !.pc = "returned", !.store = save.store, !.localId = save.localId,
                   !.retLocal = save.localId, !.retCloud = cloudId, !.toast = toast]

\* a transaction that opens whatever this.db is
transactionAlwaysOpens(db) == TRUE

\* this.db.transaction(...): a TypeError while this.db is null
transactionOpens(db) == db

\* the call up to the end of savePendingRoute: the record is added, or the call
\* rejects because this.db is null (explored while the stores have held fewer
\* than limit records)
SaveRouteWithin(s, u, limit) ==
  /\ save.pc \in {"idle", "returned", "rejected"}
  /\ nextKey["pending_routes"] + nextKey["pending_guides"] - 2 < limit
  /\ IF transactionOpens(dbOpen)
     THEN /\ store' = [store EXCEPT ![s] = Add(@, nextKey[s], pendingRoute)]
          /\ nextKey' = [nextKey EXCEPT ![s] = @ + 1]
          /\ save' = [IdleSave EXCEPT !.pc = "queueEmail", !.store = s,
                                      !.localId = nextKey[s], !.user = u,
                                      !.onlineAtCall = isOnline]
     ELSE /\ save' = [IdleSave EXCEPT !.pc = "rejected"]
          /\ UNCHANGED <<store, nextKey>>
  /\ UNCHANGED <<isOnline, syncInProgress, cfgVars, email_queue, cloudVars, sync,
                 single, clear, syncNotice, connVars, flatVars, mailVars>>

SaveRoute(s, u) == SaveRouteWithin(s, u, MaxRecords)

\* the condition without this.isOnline
inlineUploadWithUser(online, user) == user # NoUser

\* if (this.isOnline && user): the call tries the inline upload
inlineUpload(online, user) == online /\ user # NoUser

\* await queueEmailBackup(type, {...pendingRoute, localId}) adds the entry; the
\* call goes on in the same task: if (this.isOnline && user) it starts the
\* inline upload, else processEmailQueue and return { localId, cloudId: null }
SaveQueueEmail ==
  /\ save.pc = "queueEmail"
  /\ LET id == Cardinality(DOMAIN email_queue) + 1
     IN email_queue' = Add(email_queue, id, emailItem(save.store, save.localId))
  /\ IF inlineUpload(isOnline, save.user)
     THEN /\ save' = [save EXCEPT !.pc = "upload"]
          /\ UNCHANGED mail
     ELSE /\ processEmailQueueEntry(isOnline)
          /\ save' = SaveReturn(NoId, "saved locally")
  /\ UNCHANGED <<isOnline, syncInProgress, cfgVars, store, nextKey, cloudVars, sync,
                 single, clear, syncNotice, connVars, flatVars, relaySends>>

\* uploadRouteToCloud resolves with docRef.id, then markRouteUploaded, then
\* return { localId, cloudId }
SaveUploadOk ==
  /\ save.pc = "upload"
  /\ totalWrites < MaxWrites
  /\ LET s == save.store
         k == save.localId
     IN /\ cloudDocs' = addDoc(s, k)
        /\ store' = [store EXCEPT ![s] = markRouteUploaded(@, k, docId(s, k), now(s, k))]
        /\ save' = SaveReturn(docId(s, k), "saved to cloud")
  /\ UNCHANGED <<isOnline, syncInProgress, cfgVars, nextKey, email_queue, sync,
                 single, clear, syncNotice, connVars, flatVars, mailVars>>

\* uploadRouteToCloud throws and nothing catches it: the call rejects
SaveUploadFailRejects ==
  /\ save.pc = "upload"
  /\ save' = [save EXCEPT !.pc = "rejected"]
  /\ UNCHANGED <<isOnline, syncInProgress, cfgVars, storeVars, cloudVars, sync,
                 single, clear, syncNotice, connVars, flatVars, mailVars>>

\* uploadRouteToCloud throws: the catch warns, then processEmailQueue and
\* return { localId, cloudId: null }
SaveUploadFail ==
  /\ save.pc = "upload"
  /\ processEmailQueue
  /\ save' = SaveReturn(NoId, "will sync when online")
  /\ UNCHANGED <<isOnline, syncInProgress, cfgVars, store, nextKey, cloudVars, sync,
                 single, clear, syncNotice, connVars, flatVars, relaySends>>

----------------------------------------------------------------------------
(* syncAllPending *)

IdleSync == [pc |-> "idle", todoR |-> {}, todoG |-> {}]

freePasses == {p \in Passes : sync[p].pc = "idle"}

\* the entry of syncAllPending, up to the first await, with this.isOnline as
\* the caller left it: the two early returns, or syncInProgress = true
syncAllPendingEntry(inProgress, online) ==
  IF inProgress
  THEN /\ syncNotice' = "in_progress"
       /\ UNCHANGED <<sync, syncInProgress>>
  ELSE IF ~online
  THEN /\ syncNotice' = "no_connection"
       /\ UNCHANGED <<sync, syncInProgress>>
  ELSE /\ freePasses # {}
       /\ syncInProgress' = TRUE
       /\ sync' = [sync EXCEPT ![Min(freePasses)].pc = "auth"]
       /\ syncNotice' = "none"

\* the entry without its first check (if (this.syncInProgress) return)
syncAllPendingUnguarded == syncAllPendingEntry(FALSE, isOnline)

\* the entry without its second check (if (!this.isOnline) return)
syncAllPendingOffline == syncAllPendingEntry(syncInProgress, TRUE)
syncAllPending == syncAllPendingEntry(syncInProgress, isOnline)

\* the poll callback's call, made right after it has set isOnline = true
pollSyncAllPending == syncAllPendingEntry(syncInProgress, TRUE)

\* the 'Sync Now' and 'Upload All Pending' buttons
SyncButton ==
  /\ syncAllPending
  /\ UNCHANGED <<isOnline, cfgVars, storeVars, cloudVars, save, single, clear, connVars,
                 flatVars, mailVars>>

\* the check of the user without this.syncInProgress = false before its return
SyncAuthKeepsFlag(p) ==
  /\ sync[p].pc = "auth"
  /\ IF currentUser = NoUser
     THEN sync' = [sync EXCEPT ![p] = IdleSync]
     ELSE sync' = [sync EXCEPT ![p].pc = "getRoutes"]
  /\ UNCHANGED <<syncInProgress, isOnline, cfgVars, storeVars, cloudVars, save, single, clear,
                 syncNotice, connVars, flatVars, mailVars>>

\* user = auth.currentUser; without a user the pass ends
SyncAuth(p) ==
  /\ sync[p].pc = "auth"
  /\ IF currentUser = NoUser
     THEN /\ syncInProgress' = FALSE
          /\ sync' = [sync EXCEPT ![p] = IdleSync]
     ELSE /\ sync' = [sync EXCEPT ![p].pc = "getRoutes"]
          /\ UNCHANGED syncInProgress
  /\ UNCHANGED <<isOnline, cfgVars, storeVars, cloudVars, save, single, clear, syncNotice,
                 connVars, flatVars, mailVars>>

\* routes = await getPendingRoutes(); with this.db null it throws, the outer
\* catch reports 'Sync failed' and finally clears the flag
SyncGetRoutes(p) ==
  /\ sync[p].pc = "getRoutes"
  /\ IF dbOpen
     THEN /\ sync' = [sync EXCEPT ![p].pc = "getGuides",
                                  ![p].todoR = pendingKeys(store["pending_routes"])]
          /\ UNCHANGED syncInProgress
     ELSE /\ syncInProgress' = FALSE
          /\ sync' = [sync EXCEPT ![p] = IdleSync]
  /\ UNCHANGED <<isOnline, cfgVars, storeVars, cloudVars, save, single, clear, syncNotice,
                 connVars, flatVars, mailVars>>

\* guides = await getPendingGuides(); nothing pending ends the pass
SyncGetGuides(p) ==
  /\ sync[p].pc = "getGuides"
  /\ LET g == pendingKeys(store["pending_guides"])
     IN IF sync[p].todoR = {} /\ g = {}
        THEN /\ syncInProgress' = FALSE
             /\ sync' = [sync EXCEPT ![p] = IdleSync]
        ELSE /\ sync' = [sync EXCEPT ![p].pc = "upload", ![p].todoG = g]
             /\ UNCHANGED syncInProgress
  /\ UNCHANGED <<isOnline, cfgVars, storeVars, cloudVars, save, single, clear, syncNotice,
                 connVars, flatVars, mailVars>>

\* the record the two for loops are at: routes first, each list in key order
syncStore(p) == IF sync[p].todoR # {} THEN "pending_routes" ELSE "pending_guides"
syncKey(p) == IF sync[p].todoR # {} THEN Min(sync[p].todoR) ELSE Min(sync[p].todoG)

\* the loop moves past the record; after the last one the pass awaits
\* processEmailQueue
syncAdvance(p) ==
  LET r == IF sync[p].todoR # {} THEN sync[p].todoR \ {syncKey(p)} ELSE {}
      g == IF sync[p].todoR # {} THEN sync[p].todoG ELSE sync[p].todoG \ {syncKey(p)}
  IN [pc |-> IF r = {} /\ g = {} THEN "finish" ELSE "upload", todoR |-> r, todoG |-> g]

\* try: cloudId = await uploadRouteToCloud(...); await markRouteUploaded(...)
SyncUploadOk(p) ==
  /\ sync[p].pc = "upload"
  /\ totalWrites < MaxWrites
  /\ LET s == syncStore(p)
         k == syncKey(p)
     IN /\ cloudDocs' = addDoc(s, k)
        /\ store' = [store EXCEPT ![s] = markRouteUploaded(@, k, docId(s, k), now(s, k))]
  /\ sync' = [sync EXCEPT ![p] = syncAdvance(p)]
  /\ UNCHANGED <<isOnline, syncInProgress, cfgVars, nextKey, email_queue, save,
                 single, clear, syncNotice, connVars, flatVars, mailVars>>

\* a catch around the two loops: the first failure ends the pass
SyncUploadFailAborts(p) ==
  /\ sync[p].pc = "upload"
  /\ totalRetries < MaxRetry
  /\ store' = [store EXCEPT ![syncStore(p)] = incrementRetryCount(@, syncKey(p))]
  /\ sync' = [sync EXCEPT ![p] = [IdleSync EXCEPT !.pc = "finish"]]
  /\ UNCHANGED <<isOnline, syncInProgress, cfgVars, nextKey, email_queue, cloudVars,
                 save, single, clear, syncNotice, connVars, flatVars, mailVars>>

\* catch: failCount++; await incrementRetryCount(storeName, localId)
SyncUploadFail(p) ==
  /\ sync[p].pc = "upload"
  /\ LET s == syncStore(p)
         k == syncKey(p)
     IN /\ totalRetries < MaxRetry
        /\ store' = [store EXCEPT ![s] = incrementRetryCount(@, k)]
  /\ sync' = [sync EXCEPT ![p] = syncAdvance(p)]
  /\ UNCHANGED <<isOnline, syncInProgress, cfgVars, nextKey, email_queue, cloudVars,
                 save, single, clear, syncNotice, connVars, flatVars, mailVars>>

\* await processEmailQueue(); finally syncInProgress = false.  The caller that
\* awaited the pass goes on in the same task: the poll callback calls
\* processEmailQueue, which returns at once like the first.
SyncFinish(p) ==
  /\ sync[p].pc = "finish"
  /\ processEmailQueue
  /\ syncInProgress' = FALSE
  /\ sync' = [sync EXCEPT ![p] = IdleSync]
  /\ UNCHANGED <<isOnline, cfgVars, store, nextKey, cloudVars, save, single, clear,
                 syncNotice, connVars, flatVars, relaySends>>

----------------------------------------------------------------------------
(* uploadSingleRoute / uploadSingleGuide (one call at a time), deleteRoute /    *)
(* deleteGuide                                                                *)

IdleSingle == [pc |-> "idle", store |-> "pending_routes", localId |-> NoId]

\* the call that does not look for a user
UploadSingleRouteNoAuth(s, k) ==
  /\ single.pc = "idle"
  /\ k < nextKey[s]
  /\ single' = [pc |-> "find", store |-> s, localId |-> k]
  /\ UNCHANGED <<clear, isOnline, syncInProgress, cfgVars, storeVars, cloudVars, save, sync,
                 syncNotice, connVars, flatVars, mailVars>>

\* the Upload button of a card of the modal (a card of a record that has been
\* saved; the modal may be stale): await import(...) of the module already
\* loaded, then if (!user) { toast.error('Please sign in to upload'); return; }
UploadSingleRoute(s, k) ==
  /\ single.pc = "idle"
  /\ k < nextKey[s]
  /\ IF currentUser = NoUser
     THEN /\ syncNotice' = "sign_in"
          /\ single' = IdleSingle
     ELSE /\ single' = [pc |-> "find", store |-> s, localId |-> k]
          /\ UNCHANGED syncNotice
  /\ UNCHANGED <<clear, isOnline, syncInProgress, cfgVars, storeVars, cloudVars, save, sync,
                 connVars, flatVars, mailVars>>

\* routes = await getPendingRoutes(); route = routes.find(...), whatever its
\* status; toast.error('Route not found') and return, or the catch (with
\* this.db null), ends the call
SingleFind ==
  /\ single.pc = "find"
  /\ single' = IF dbOpen /\ single.localId \in DOMAIN store[single.store]
               THEN [single EXCEPT !.pc = "upload"]
               ELSE IdleSingle
  /\ syncNotice' = IF dbOpen /\ single.localId \notin DOMAIN store[single.store]
                   THEN "not_found"
                   ELSE syncNotice
  /\ UNCHANGED <<clear, isOnline, syncInProgress, cfgVars, storeVars, cloudVars, save, sync,
                 connVars, flatVars, mailVars>>

\* cloudId = await uploadRouteToCloud(...); await markRouteUploaded(localId, cloudId)
SingleUploadOk ==
  /\ single.pc = "upload"
  /\ totalWrites < MaxWrites
  /\ LET s == single.store
         k == single.localId
     IN /\ cloudDocs' = addDoc(s, k)
        /\ store' = [store EXCEPT ![s] = markRouteUploaded(@, k, docId(s, k), now(s, k))]
  /\ single' = IdleSingle
  /\ UNCHANGED <<clear, isOnline, syncInProgress, cfgVars, nextKey, email_queue, save, sync,
                 syncNotice, connVars, flatVars, mailVars>>

\* catch: toast.error('Upload failed'), and nothing else
SingleUploadFail ==
  /\ single.pc = "upload"
  /\ single' = IdleSingle
  /\ UNCHANGED <<clear, isOnline, syncInProgress, cfgVars, storeVars, cloudVars, save, sync,
                 syncNotice, connVars, flatVars, mailVars>>

\* a filter that keeps every record
keysOfAnyStatus(f) == DOMAIN f

\* routes.filter(r => r.status === 'uploaded')
uploadedKeys(f) == {k \in DOMAIN f : f[k].status = "uploaded"}

IdleClear == [pc |-> "idle", todoR |-> {}, todoG |-> {}]

\* the for loops of clearUploaded go to their next record, or the call ends
clearLoop(r, g) ==
  IF r = {} /\ g = {} THEN IdleClear ELSE [pc |-> "delete", todoR |-> r, todoG |-> g]

\* clearUploaded, confirmed: it asks for the routes
ClearUploaded ==
  /\ clear.pc = "idle"
  /\ clear' = [clear EXCEPT !.pc = "getRoutes"]
  /\ UNCHANGED <<isOnline, syncInProgress, cfgVars, storeVars, cloudVars, save, sync,
                 single, syncNotice, connVars, flatVars, mailVars>>

\* routes = await getPendingRoutes(); with this.db null it throws and the
\* catch reports 'Clear failed'
ClearGetRoutes ==
  /\ clear.pc = "getRoutes"
  /\ clear' = IF dbOpen
              THEN [clear EXCEPT !.pc = "getGuides",
                                 !.todoR = uploadedKeys(store["pending_routes"])]
              ELSE IdleClear
  /\ UNCHANGED <<isOnline, syncInProgress, cfgVars, storeVars, cloudVars, save, sync,
                 single, syncNotice, connVars, flatVars, mailVars>>

\* guides = await getPendingGuides(), and the loops start
ClearGetGuides ==
  /\ clear.pc = "getGuides"
  /\ clear' = clearLoop(clear.todoR, uploadedKeys(store["pending_guides"]))
  /\ UNCHANGED <<isOnline, syncInProgress, cfgVars, storeVars, cloudVars, save, sync,
                 single, syncNotice, connVars, flatVars, mailVars>>

\* await deleteLocalRoute(route.localId) / deleteLocalGuide(guide.localId):
\* routes first, each list in key order
ClearDelete ==
  /\ clear.pc = "delete"
  /\ LET s == IF clear.todoR # {} THEN "pending_routes" ELSE "pending_guides"
         k == IF clear.todoR # {} THEN Min(clear.todoR) ELSE Min(clear.todoG)
     IN /\ store' = [store EXCEPT ![s] = Delete(@, k)]
        /\ clear' = IF s = "pending_routes"
                    THEN clearLoop(clear.todoR \ {k}, clear.todoG)
                    ELSE clearLoop(clear.todoR, clear.todoG \ {k})
  /\ UNCHANGED <<isOnline, syncInProgress, cfgVars, nextKey, email_queue, cloudVars,
                 save, sync, single, syncNotice, connVars, flatVars, mailVars>>

\* deleteRoute / deleteGuide, confirmed: deleteLocalRoute(localId)
DeleteRoute(s, k) ==
  /\ dbOpen
  /\ k \in DOMAIN store[s]
  /\ store' = [store EXCEPT ![s] = Delete(@, k)]
  /\ UNCHANGED <<isOnline, syncInProgress, cfgVars, nextKey, email_queue, cloudVars,
                 save, sync, single, clear, syncNotice, connVars, flatVars, mailVars>>

----------------------------------------------------------------------------
(* initialize, the connectivity listeners, the identity *)

\* the database as the upgrade handler sees it: event.target.result
database ==
  [names |-> objectStoreNames, store |-> store, nextKey |-> nextKey,
   email_queue |-> email_queue]

\* db.createObjectStore(name, { keyPath, autoIncrement: true }): a store with
\* no record and a fresh key generator (the indexes hold no data of their own)
createObjectStore(db, name) ==
  IF name \in Stores
  THEN [db EXCEPT !.names = @ \cup {name}, !.store[name] = << >>, !.nextKey[name] = 1]
  ELSE [db EXCEPT !.names = @ \cup {name}, !.email_queue = << >>]

\* a handler that creates the store whether the database has it or not
ensureObjectStoreUnguarded(db, name) == createObjectStore(db, name)

\* if (!db.objectStoreNames.contains(name)) { db.createObjectStore(name, ...) }
ensureObjectStore(db, name) ==
  IF name \in db.names THEN db ELSE createObjectStore(db, name)

\* request.onupgradeneeded
onupgradeneeded(db) ==
  ensureObjectStore(ensureObjectStore(ensureObjectStore(db, "pending_routes"),
                                      "pending_guides"),
                    "email_queue")

\* indexedDB.open fires upgradeneeded on a connection that is not yet handed
\* to the module: the handler runs on the database as it is
UpgradeNeeded ==
  /\ ~dbOpen
  /\ upgrades < MaxUpgrades
  /\ upgrades' = upgrades + 1
  /\ LET db == onupgradeneeded(database)
     IN /\ objectStoreNames' = db.names
        /\ store' = db.store
        /\ nextKey' = db.nextKey
        /\ email_queue' = db.email_queue
  /\ UNCHANGED <<isOnline, syncInProgress, dbOpen, emailJsLoaded, currentUser,
                 emailConfig, cloudVars, save, sync, single, clear, syncNotice, connVars,
                 flatVars, mailVars, trackVars>>

\* initialize: openDatabase succeeds (request.onsuccess, which on a database
\* that is new follows the upgrade), then setupConnectivityListeners
OpenDatabase ==
  /\ ~dbOpen
  /\ objectStoreNames = StoreNames
  /\ dbOpen' = TRUE
  /\ UNCHANGED <<isOnline, syncInProgress, emailJsLoaded, currentUser, storeVars,
                 cloudVars, save, sync, single, clear, syncNotice, connVars, flatVars,
                 emailConfig, mailVars, schemaVars, trackVars>>

\* the 'online' listener calling syncAllPending itself, with no timer
OnlineEventNoDelay ==
  /\ dbOpen
  /\ isOnline' = TRUE
  /\ IF getPendingCount > 0
     THEN pollSyncAllPending
     ELSE UNCHANGED <<sync, syncInProgress, syncNotice>>
  /\ processEmailQueueEntry(TRUE)
  /\ UNCHANGED email_queue
  /\ UNCHANGED <<cfgVars, store, nextKey, cloudVars, save, single, clear, connVars, flatVars,
                 relaySends>>

\* the 'online' listener: isOnline = true; pendingCount = await getPendingCount();
\* with something pending, setTimeout(..., 3000); then processEmailQueue.  The
\* count is read in the listener's step.
OnlineEvent ==
  /\ dbOpen
  /\ isOnline' = TRUE
  /\ IF getPendingCount > 0
     THEN /\ settleTimers < MaxTimers
          /\ settleTimers' = settleTimers + 1
     ELSE UNCHANGED settleTimers
  /\ processEmailQueueEntry(TRUE)
  /\ UNCHANGED email_queue
  /\ UNCHANGED <<syncInProgress, cfgVars, store, nextKey, cloudVars, save, sync,
                 single, clear, syncNotice, flatVars, relaySends>>

\* a settle timer whose callback calls syncAllPending without looking at
\* this.isOnline, as the poll does
SettleTimerUnchecked ==
  /\ settleTimers > 0
  /\ settleTimers' = settleTimers - 1
  /\ pollSyncAllPending
  /\ UNCHANGED <<isOnline, cfgVars, storeVars, cloudVars, save, single, clear, flatVars,
                 mailVars>>

\* the settle timer fires: if (this.isOnline) await this.syncAllPending()
SettleTimer ==
  /\ settleTimers > 0
  /\ settleTimers' = settleTimers - 1
  /\ IF isOnline
     THEN syncAllPending
     ELSE UNCHANGED <<sync, syncInProgress, syncNotice>>
  /\ UNCHANGED <<isOnline, cfgVars, storeVars, cloudVars, save, single, clear, flatVars,
                 mailVars>>

\* an 'offline' listener that also gives up the pass in progress
OfflineEventResets ==
  /\ dbOpen
  /\ isOnline' = FALSE
  /\ syncInProgress' = FALSE
  /\ UNCHANGED <<cfgVars, storeVars, cloudVars, save, sync, single, clear,
                 syncNotice, connVars, flatVars, mailVars>>

\* the 'offline' listener
OfflineEvent ==
  /\ dbOpen
  /\ isOnline' = FALSE
  /\ UNCHANGED <<syncInProgress, cfgVars, storeVars, cloudVars, save, sync, single, clear,
                 syncNotice, connVars, flatVars, mailVars>>

\* the setInterval callback: isOnline = navigator.onLine; on an offline -> online
\* flip, with something pending, it awaits syncAllPending at once (no settle
\* delay); processEmailQueue follows the pass (see SyncFinish) or comes at once.
\* The count is read in the callback's step.  The processEmailQueue call that
\* follows an awaited pass is modelled for a relay library that is not loaded.
Poll(nav) ==
  /\ dbOpen
  /\ isOnline' = nav
  /\ IF ~isOnline /\ nav /\ getPendingCount > 0
     THEN /\ pollSyncAllPending
          /\ ~emailJsLoaded
          /\ UNCHANGED mail
     ELSE /\ UNCHANGED <<sync, syncInProgress, syncNotice>>
          /\ IF ~isOnline /\ nav THEN processEmailQueueEntry(TRUE) ELSE UNCHANGED mail
  /\ UNCHANGED email_queue
  /\ UNCHANGED <<cfgVars, store, nextKey, cloudVars, save, single, clear, settleTimers, flatVars,
                 relaySends>>

\* the user signs in or out (auth.currentUser)
AuthChange ==
  /\ \E u \in Users \cup {NoUser} : u # currentUser /\ currentUser' = u
  /\ UNCHANGED <<isOnline, syncInProgress, dbOpen, emailJsLoaded, storeVars,
                 cloudVars, save, sync, single, clear, syncNotice, connVars, flatVars,
                 emailConfig, mailVars, schemaVars, trackVars>>

----------------------------------------------------------------------------
(* processEmailQueue once its request has succeeded: the loop over the        *)
(* entries it has read.  A relay send and the store write that follows it are *)
(* one step.                                                                  *)

\* if (item.retryCount >= 3) continue
EmailRetryLimit == 3

\* index.getAll(false) as the code means it: the entries with sent = false, in
\* key order, as they are when the request is served
unsentEntries ==
  SelectSeq([i \in 1..Cardinality(DOMAIN email_queue) |->
               [id |-> i, retryCount |-> email_queue[i].retryCount]],
            LAMBDA x : ~email_queue[x.id].sent)

\* the index of the next entry of the list, from i on, that the loop does not
\* pass over (0: none)
RECURSIVE nextEntry(_, _)
nextEntry(items, i) ==
  IF i > Len(items) THEN 0
  ELSE IF items[i].retryCount >= EmailRetryLimit THEN nextEntry(items, i + 1)
  ELSE i

\* the loop goes to its next entry, or ends
mailLoop(items, i) ==
  LET j == nextEntry(items, i)
  IN IF j = 0 THEN IdleMail ELSE [pc |-> "send", items |-> items, i |-> j]

\* markEmailSent: one readwrite transaction, get then put
markEmailSent(f, id) ==
  IF id \in DOMAIN f THEN [f EXCEPT ![id].sent = TRUE] ELSE f

\* incrementEmailRetry: one readwrite transaction, get then put
incrementEmailRetry(f, id) ==
  IF id \in DOMAIN f THEN [f EXCEPT ![id].retryCount = @ + 1] ELSE f

\* request.onsuccess: unsent = request.result, and the loop starts
MailQuery(d) ==
  /\ mail[d].pc = "query"
  /\ mail' = [mail EXCEPT ![d] = mailLoop(unsentEntries, 1)]
  /\ UNCHANGED <<isOnline, syncInProgress, cfgVars, storeVars, cloudVars, save, sync,
                 single, clear, syncNotice, connVars, flatVars, relaySends>>

\* sendEmailBackup: if (!config.publicKey || !config.serviceId ||
\* !config.templateId) it logs and returns, and the caller goes on as after a
\* send
sendEmailBackupSkips(config) == ~config

\* await sendEmailBackup(item) returns without a send; await markEmailSent(item.id)
MailNotConfigured(d) ==
  /\ mail[d].pc = "send"
  /\ sendEmailBackupSkips(emailConfig)
  /\ LET id == mail[d].items[mail[d].i].id
     IN email_queue' = markEmailSent(email_queue, id)
  /\ mail' = [mail EXCEPT ![d] = mailLoop(mail[d].items, mail[d].i + 1)]
  /\ UNCHANGED <<isOnline, syncInProgress, cfgVars, store, nextKey, cloudVars, save,
                 sync, single, clear, syncNotice, connVars, flatVars, relaySends>>

\* emailjs.send resolves; await markEmailSent(item.id)
MailSendOk(d) ==
  /\ mail[d].pc = "send"
  /\ emailConfig
  /\ LET id == mail[d].items[mail[d].i].id
     IN /\ relaySends[id] < MaxSends
        /\ relaySends' = [relaySends EXCEPT ![id] = @ + 1]
        /\ email_queue' = markEmailSent(email_queue, id)
  /\ mail' = [mail EXCEPT ![d] = mailLoop(mail[d].items, mail[d].i + 1)]
  /\ UNCHANGED <<isOnline, syncInProgress, cfgVars, store, nextKey, cloudVars, save,
                 sync, single, clear, syncNotice, connVars, flatVars>>

\* emailjs.send rejects; catch: await incrementEmailRetry(item.id)
MailSendFail(d) ==
  /\ mail[d].pc = "send"
  /\ emailConfig
  /\ LET id == mail[d].items[mail[d].i].id
     IN email_queue' = incrementEmailRetry(email_queue, id)
  /\ mail' = [mail EXCEPT ![d] = mailLoop(mail[d].items, mail[d].i + 1)]
  /\ UNCHANGED <<isOnline, syncInProgress, cfgVars, store, nextKey, cloudVars, save,
                 sync, single, clear, syncNotice, connVars, flatVars, relaySends>>

----------------------------------------------------------------------------
(* The flat queues of photos and surveys in localStorage.  The two are alike: *)
(* queuePhoto / queueSurvey, processPhotoQueue / processSurveyQueue.         *)

Queues == {"photos", "surveys"}
Items == 1..MaxItems
Drains == 1..MaxDrains

\* the status of an item whose remote call has succeeded
Done(q) == IF q = "photos" THEN "uploaded" ELSE "submitted"

\* if (photo.retryCount >= 3) photo.status = 'failed'
RetryLimit == 3

\* the item queuePhoto / queueSurvey builds (payload left out)
queuedPhoto(id) == [id |-> id, status |-> "pending", retryCount |-> 0]

IdleDrain == [pc |-> "idle", q |-> "photos", items |-> << >>, i |-> 0]

\* the localStorage arrays, the drain calls and their timers, as one value
FlatState == [flat |-> flat, drain |-> drain, prunes |-> prunes]

freeDrains(F) == {d \in Drains : F.drain[d].pc = "idle"}

\* for (const photo of pendingPhotos) { if (photo.status === 'uploaded') continue;
\* the index of the first item from i on that the loop does not pass over
RECURSIVE nextTodo(_, _, _)
nextTodo(q, items, i) ==
  IF i > Len(items) THEN i
  ELSE IF items[i].status = Done(q) THEN nextTodo(q, items, i + 1)
  ELSE i

\* pendingPhotos.filter(p => p.status !== 'uploaded')
remaining(q, items) == SelectSeq(items, LAMBDA x : x.status # Done(q))

\* the loop of drain call d goes on from index i of its array: it awaits the
\* remote call of the next item it does not pass over, or, with no item left,
\* writes its array to localStorage and sets the prune timer in the same task
drainLoop(F, d, q, items, i) ==
  LET j == nextTodo(q, items, i)
  IN IF j <= Len(items)
     THEN [F EXCEPT !.drain[d] = [pc |-> "remote", q |-> q, items |-> items, i |-> j]]
     ELSE [F EXCEPT !.drain[d] = IdleDrain,
                    !.flat[q] = items,
                    !.prunes = Append(@, [q |-> q, items |-> items])]

\* processPhotoQueue / processSurveyQueue up to its first await: the array is
\* read from localStorage; an empty array ends the call
processPhotoQueue(F, q) ==
  IF Len(F.flat[q]) = 0
  THEN F
  ELSE drainLoop(F, Min(freeDrains(F)), q, F.flat[q], 1)

\* a drain call can be taken up
drainSlot(F, q) == Len(F.flat[q]) = 0 \/ freeDrains(F) # {}

SetFlat(F) ==
  /\ Len(F.prunes) <= MaxPrunes
  /\ flat' = F.flat
  /\ drain' = F.drain
  /\ prunes' = F.prunes

sumOver(f) ==
  LET sum[k \in 0..MaxItems] == IF k = 0 THEN 0 ELSE sum[k - 1] + f[k]
  IN sum[MaxItems]

\* this.pendingRoutes?.length || 0 and this.pendingGuides?.length || 0: the
\* module never assigns the two fields
pendingRoutesLength == 0

\* array.filter(p => p.status === 'pending').length
pendingLength(items) == Len(SelectSeq(items, LAMBDA x : x.status = "pending"))

\* getAllPendingCount
getAllPendingCount ==
  [photos |-> pendingLength(flat["photos"]),
   surveys |-> pendingLength(flat["surveys"]),
   routes |-> pendingRoutesLength,
   guides |-> pendingRoutesLength,
   total |-> Len(flat["photos"]) + Len(flat["surveys"])
             + pendingRoutesLength + pendingRoutesLength]

\* queuePhoto / queueSurvey: push and setItem, then if (this.isOnline) the drain
\* is called and not awaited: it runs up to its first await in the same task
QueuePhoto(q) ==
  /\ nextItem <= MaxItems
  /\ nextItem' = nextItem + 1
  /\ LET F == [FlatState EXCEPT !.flat[q] = Append(@, queuedPhoto(nextItem))]
     IN IF isOnline
        THEN drainSlot(F, q) /\ SetFlat(processPhotoQueue(F, q))
        ELSE SetFlat(F)
  /\ UNCHANGED <<allQueues, isOnline, syncInProgress, cfgVars, storeVars, cloudVars, save, sync,
                 single, clear, syncNotice, connVars, remoteOk, remoteFail, mailVars>>

\* processAllQueues: offline it warns and returns; online it calls the photo
\* drain, then the survey drain, each up to its first await, then
\* this.retryPendingUploads(): the class has no such method, the call of
\* undefined throws a TypeError while the array of promises is being built and
\* processAllQueues rejects; the report of the remaining total is not reached
ProcessAllQueues ==
  /\ IF isOnline
     THEN LET F == processPhotoQueue(FlatState, "photos")
          IN /\ drainSlot(FlatState, "photos")
             /\ drainSlot(F, "surveys")
             /\ SetFlat(processPhotoQueue(F, "surveys"))
             /\ allQueues' = "rejected"
     ELSE /\ UNCHANGED <<flat, drain, prunes>>
          /\ allQueues' = "offline"
  /\ UNCHANGED <<isOnline, syncInProgress, cfgVars, storeVars, cloudVars, save, sync,
                 single, clear, syncNotice, connVars, nextItem, remoteOk, remoteFail,
                 mailVars>>

\* the remote call of drain d resolves: photo.status = 'uploaded', and the loop
\* goes on
DrainOk(d) ==
  /\ drain[d].pc = "remote"
  /\ sumOver(remoteOk) < MaxOks
  /\ LET q == drain[d].q
         i == drain[d].i
         items == [drain[d].items EXCEPT ![i].status = Done(q)]
     IN /\ remoteOk' = [remoteOk EXCEPT ![items[i].id] = @ + 1]
        /\ SetFlat(drainLoop(FlatState, d, q, items, i + 1))
  /\ UNCHANGED <<allQueues, isOnline, syncInProgress, cfgVars, storeVars, cloudVars, save, sync,
                 single, clear, syncNotice, connVars, nextItem, remoteFail, mailVars>>

\* a catch that counts the failure and leaves the status as it is
DrainFailKeepsStatus(d) ==
  /\ drain[d].pc = "remote"
  /\ sumOver(remoteFail) < MaxFails
  /\ LET q == drain[d].q
         i == drain[d].i
         n == drain[d].items[i].retryCount + 1
         items == [drain[d].items EXCEPT
                     ![i].retryCount = n]
     IN /\ remoteFail' = [remoteFail EXCEPT ![items[i].id] = @ + 1]
        /\ SetFlat(drainLoop(FlatState, d, q, items, i + 1))
  /\ UNCHANGED <<allQueues, isOnline, syncInProgress, cfgVars, storeVars, cloudVars, save, sync,
                 single, clear, syncNotice, connVars, nextItem, remoteOk, mailVars>>

\* the remote call of drain d throws: photo.retryCount++, 'failed' from
\* RetryLimit on, and the loop goes on
DrainFail(d) ==
  /\ drain[d].pc = "remote"
  /\ sumOver(remoteFail) < MaxFails
  /\ LET q == drain[d].q
         i == drain[d].i
         n == drain[d].items[i].retryCount + 1
         items == [drain[d].items EXCEPT
                     ![i].retryCount = n,
                     ![i].status = IF n >= RetryLimit THEN "failed" ELSE @]
     IN /\ remoteFail' = [remoteFail EXCEPT ![items[i].id] = @ + 1]
        /\ SetFlat(drainLoop(FlatState, d, q, items, i + 1))
  /\ UNCHANGED <<allQueues, isOnline, syncInProgress, cfgVars, storeVars, cloudVars, save, sync,
                 single, clear, syncNotice, connVars, nextItem, remoteOk, mailVars>>

\* the oldest prune timer fires (the timers have the same delay): it filters
\* the array its drain held and writes the rest to localStorage
Prune ==
  /\ prunes # << >>
  /\ LET t == Head(prunes)
     IN flat' = [flat EXCEPT ![t.q] = remaining(t.q, t.items)]
  /\ prunes' = Tail(prunes)
  /\ UNCHANGED <<allQueues, isOnline, syncInProgress, cfgVars, storeVars, cloudVars, save, sync,
                 single, clear, syncNotice, connVars, nextItem, drain, remoteOk, remoteFail,
                 mailVars>>

----------------------------------------------------------------------------
(* TrackingController: start, stop, togglePause, cleanup and the callbacks of *)
(* the GPS watch.  start and togglePause have no await; stop has changed the  *)
(* controller's fields before its first await.                                *)

\* the variables of OfflineSync, which the controller does not touch
offlineSyncVars ==
  <<isOnline, syncInProgress, dbOpen, emailJsLoaded, currentUser, emailConfig,
    schemaVars, storeVars, cloudVars, save, sync, single, clear, syncNotice,
    connVars, flatVars, mailVars>>

\* the constructor, with a browser that has given out no watch yet and an
\* appState that holds no route
InitTracking ==
  /\ isTracking = FALSE
  /\ isPaused = FALSE
  /\ watchId = NoId
  /\ watchIDs = {}
  /\ nextWatchId = 1
  /\ routeData = 0
  /\ savePrompts = 0

\* this.watchId = navigator.geolocation.watchPosition(...): a new watch, whose
\* id is a number above zero
watchPosition ==
  /\ nextWatchId <= MaxWatches
  /\ watchId' = nextWatchId
  /\ watchIDs' = watchIDs \cup {nextWatchId}
  /\ nextWatchId' = nextWatchId + 1

\* if (this.watchId) { navigator.geolocation.clearWatch(this.watchId);
\* this.watchId = null; }
clearWatch ==
  /\ watchIDs' = IF watchId # NoId THEN watchIDs \ {watchId} ELSE watchIDs
  /\ watchId' = NoId
  /\ UNCHANGED nextWatchId

\* start: it returns false while tracking; else, unless it resumes a restored
\* route (elapsed time and route data both there), it clears the route data;
\* then isTracking = true, isPaused = false and a new watch
start ==
  /\ ~isTracking
  /\ \E isResuming \in (IF routeData > 0 THEN BOOLEAN ELSE {FALSE}) :
        routeData' = IF isResuming THEN routeData ELSE 0
  /\ isTracking' = TRUE
  /\ isPaused' = FALSE
  /\ watchPosition
  /\ UNCHANGED <<savePrompts, offlineSyncVars>>

\* stop up to its first await that does not settle at once: it returns false
\* when not tracking; else it clears the watch, sets isTracking and isPaused
\* to false, and promptForSave opens its dialog if there is route data
stop ==
  /\ isTracking
  /\ clearWatch
  /\ isTracking' = FALSE
  /\ isPaused' = FALSE
  /\ IF routeData > 0
     THEN /\ savePrompts < MaxPrompts
          /\ savePrompts' = savePrompts + 1
     ELSE UNCHANGED savePrompts
  /\ UNCHANGED <<routeData, offlineSyncVars>>

\* togglePause while paused and while not paused, for a pause that leaves the
\* watch registered
togglePauseKeepsWatch ==
  /\ isTracking
  /\ IF isPaused
     THEN /\ isPaused' = FALSE
          /\ watchPosition
     ELSE /\ isPaused' = TRUE
          /\ UNCHANGED <<watchId, watchIDs, nextWatchId>>
  /\ UNCHANGED <<isTracking, routeData, savePrompts, offlineSyncVars>>

\* togglePause: it returns false when not tracking; paused, it resumes with a
\* new watch; else it pauses and clears the watch
togglePause ==
  /\ isTracking
  /\ IF isPaused
     THEN /\ isPaused' = FALSE
          /\ watchPosition
     ELSE /\ isPaused' = TRUE
          /\ clearWatch
  /\ UNCHANGED <<isTracking, routeData, savePrompts, offlineSyncVars>>

\* handlePositionUpdate, called for a watch the browser holds, with a reading
\* that passes the accuracy and distance filters: a point is added unless the
\* controller is not tracking or is paused
handlePositionUpdate(w) ==
  /\ w \in watchIDs
  /\ isTracking /\ ~isPaused
  /\ routeData < MaxPoints
  /\ routeData' = routeData + 1
  /\ UNCHANGED <<isTracking, isPaused, watchId, watchIDs, nextWatchId, savePrompts,
                 offlineSyncVars>>

\* handlePositionError with error.code PERMISSION_DENIED, for a watch the
\* browser holds or has held (a callback queued before clearWatch): this.stop()
handlePositionError(w) ==
  /\ w \in 1..(nextWatchId - 1)
  /\ stop

\* promptForSave goes on after its dialogs: saveRoute, which clears the route
\* data once the session is saved and leaves it if the user gives no name, or
\* discardRoute, which clears it
PromptAnswered ==
  /\ savePrompts > 0
  /\ savePrompts' = savePrompts - 1
  /\ routeData' \in {routeData, 0}
  /\ UNCHANGED <<isTracking, isPaused, watchId, watchIDs, nextWatchId, offlineSyncVars>>

\* cleanup: clear the watch, stop the timer, isTracking = isPaused = false
cleanup ==
  /\ clearWatch
  /\ isTracking' = FALSE
  /\ isPaused' = FALSE
  /\ UNCHANGED <<routeData, savePrompts, offlineSyncVars>>

----------------------------------------------------------------------------
(* The sync orchestrator once initialize() has opened the database (the module *)
(* calls it when it is loaded): saves, passes, single uploads of a signed-in   *)
(* user and the connectivity monitor, with the relay library not loaded        *)
(* (emailJsLoaded stays false, as it does with the default settings).          *)

Init ==
  /\ dbOpen = TRUE
  /\ isOnline \in BOOLEAN
  /\ syncInProgress = FALSE
  /\ emailJsLoaded = FALSE
  /\ currentUser = NoUser
  /\ store = [s \in Stores |-> << >>]
  /\ nextKey = [s \in Stores |-> 1]
  /\ email_queue = << >>
  /\ cloudDocs = [s \in Stores |-> [k \in Keys |-> 0]]
  /\ save = IdleSave
  /\ sync = [p \in Passes |-> IdleSync]
  /\ single = IdleSingle
  /\ clear = IdleClear
  /\ syncNotice = "none"
  /\ settleTimers = 0
  /\ flat = [q \in Queues |-> << >>]
  /\ nextItem = 1
  /\ drain = [d \in Drains |-> IdleDrain]
  /\ prunes = << >>
  /\ remoteOk = [id \in Items |-> 0]
  /\ remoteFail = [id \in Items |-> 0]
  /\ allQueues = "none"
  /\ emailConfig = FALSE
  /\ objectStoreNames = StoreNames
  /\ upgrades = 0
  /\ mail = [d \in 1..MaxMails |-> IdleMail]
  /\ relaySends = [id \in 1..MaxKey |-> 0]
  /\ InitTracking

Next ==
  \/ \E s \in Stores, u \in Users \cup {NoUser} : SaveRoute(s, u)
  \/ SaveQueueEmail
  \/ SaveUploadOk
  \/ SaveUploadFail
  \/ SyncButton
  \/ \E p \in Passes : SyncAuth(p)
  \/ \E p \in Passes : SyncGetRoutes(p)
  \/ \E p \in Passes : SyncGetGuides(p)
  \/ \E p \in Passes : SyncUploadOk(p)
  \/ \E p \in Passes : SyncUploadFail(p)
  \/ \E p \in Passes : SyncFinish(p)
  \/ \E s \in Stores, k \in Keys : currentUser # NoUser /\ UploadSingleRoute(s, k)
  \/ SingleFind
  \/ SingleUploadOk
  \/ SingleUploadFail
  \/ OnlineEvent
  \/ SettleTimer
  \/ OfflineEvent
  \/ \E nav \in BOOLEAN : Poll(nav)
  \/ AuthChange

Spec == Init /\ [][Next]_vars

(* The flat queues under queuePhoto / queueSurvey, processAllQueues, the     *)
(* drains, their prune timers and the connectivity listeners.                *)
NextFlat ==
  \/ \E q \in Queues : QueuePhoto(q)
  \/ ProcessAllQueues
  \/ \E d \in Drains : DrainOk(d)
  \/ \E d \in Drains : DrainFail(d)
  \/ Prune
  \/ OnlineEvent
  \/ OfflineEvent

SpecFlat == Init /\ [][NextFlat]_vars

(* The same with drain calls that do not overlap: none is called while       *)
(* another awaits a remote call.                                             *)
noDrain == freeDrains(FlatState) = Drains

NextFlatSeq ==
  \/ \E q \in Queues : noDrain /\ QueuePhoto(q)
  \/ noDrain /\ ProcessAllQueues
  \/ \E d \in Drains : DrainOk(d)
  \/ \E d \in Drains : DrainFail(d)
  \/ Prune
  \/ OnlineEvent
  \/ OfflineEvent

SpecFlatSeq == Init /\ [][NextFlatSeq]_vars

(* The connectivity monitor in a session that finds records an earlier       *)
(* session has left pending: saves, deletions, the listeners, the poll, the  *)
(* settle timers and the passes they start.                                  *)
InitStored ==
  /\ dbOpen = TRUE
  /\ isOnline \in BOOLEAN
  /\ syncInProgress = FALSE
  /\ emailJsLoaded = FALSE
  /\ currentUser = NoUser
  /\ \E r, g \in 0..MaxStored :
        /\ r + g <= MaxStored
        /\ store = [s \in Stores |->
                      [k \in 1..(IF s = "pending_routes" THEN r ELSE g) |-> pendingRoute]]
        /\ nextKey = [s \in Stores |-> (IF s = "pending_routes" THEN r ELSE g) + 1]
  /\ email_queue = << >>
  /\ cloudDocs = [s \in Stores |-> [k \in Keys |-> 0]]
  /\ save = IdleSave
  /\ sync = [p \in Passes |-> IdleSync]
  /\ single = IdleSingle
  /\ clear = IdleClear
  /\ syncNotice = "none"
  /\ settleTimers = 0
  /\ flat = [q \in Queues |-> << >>]
  /\ nextItem = 1
  /\ drain = [d \in Drains |-> IdleDrain]
  /\ prunes = << >>
  /\ remoteOk = [id \in Items |-> 0]
  /\ remoteFail = [id \in Items |-> 0]
  /\ allQueues = "none"
  /\ emailConfig = FALSE
  /\ objectStoreNames = StoreNames
  /\ upgrades = 0
  /\ mail = [d \in 1..MaxMails |-> IdleMail]
  /\ relaySends = [id \in 1..MaxKey |-> 0]
  /\ InitTracking

NextConn ==
  \/ \E s \in Stores, k \in Keys : DeleteRoute(s, k)
  \/ \E s \in Stores, u \in Users \cup {NoUser} : SaveRoute(s, u)
  \/ SaveQueueEmail
  \/ SaveUploadOk
  \/ SaveUploadFail
  \/ \E p \in Passes : SyncAuth(p)
  \/ \E p \in Passes : SyncGetRoutes(p)
  \/ \E p \in Passes : SyncGetGuides(p)
  \/ \E p \in Passes : SyncUploadOk(p)
  \/ \E p \in Passes : SyncUploadFail(p)
  \/ \E p \in Passes : SyncFinish(p)
  \/ OnlineEvent
  \/ SettleTimer
  \/ OfflineEvent
  \/ \E nav \in BOOLEAN : Poll(nav)
  \/ AuthChange

SpecConn == InitStored /\ [][NextConn]_vars

(* A connectivity restoration in such a session, with no save under way: the  *)
(* listeners, the poll, the settle timers, the buttons and the passes they    *)
(* start.                                                                     *)
NextRestore ==
  \/ SyncButton
  \/ \E p \in Passes : SyncAuth(p)
  \/ \E p \in Passes : SyncGetRoutes(p)
  \/ \E p \in Passes : SyncGetGuides(p)
  \/ \E p \in Passes : SyncUploadOk(p)
  \/ \E p \in Passes : SyncUploadFail(p)
  \/ \E p \in Passes : SyncFinish(p)
  \/ OnlineEvent
  \/ SettleTimer
  \/ OfflineEvent
  \/ \E nav \in BOOLEAN : Poll(nav)
  \/ AuthChange

SpecRestore == InitStored /\ [][NextRestore]_vars

(* The backups by email, with the relay library loaded (emailjs is defined   *)
(* when loadEmailJS looks for it) in a session that finds records an earlier *)
(* session has saved, the entry of each unsent: saves by an anonymous user,  *)
(* the 'online' and 'offline' listeners, the settle timers, the passes,      *)
(* which end for want of a user, and the processEmailQueue calls.            *)
InitEmail ==
  /\ dbOpen = TRUE
  /\ isOnline \in BOOLEAN
  /\ syncInProgress = FALSE
  /\ emailJsLoaded = TRUE
  /\ emailConfig \in BOOLEAN
  /\ objectStoreNames = StoreNames
  /\ upgrades = 0
  /\ currentUser = NoUser
  /\ \E r, g \in 0..MaxStored :
        /\ r + g <= MaxStored
        /\ store = [s \in Stores |->
                      [k \in 1..(IF s = "pending_routes" THEN r ELSE g) |-> pendingRoute]]
        /\ nextKey = [s \in Stores |-> (IF s = "pending_routes" THEN r ELSE g) + 1]
        /\ email_queue = [i \in 1..(r + g) |->
                            IF i <= r THEN emailItem("pending_routes", i)
                                      ELSE emailItem("pending_guides", i - r)]
  /\ cloudDocs = [s \in Stores |-> [k \in Keys |-> 0]]
  /\ save = IdleSave
  /\ sync = [p \in Passes |-> IdleSync]
  /\ single = IdleSingle
  /\ clear = IdleClear
  /\ syncNotice = "none"
  /\ settleTimers = 0
  /\ flat = [q \in Queues |-> << >>]
  /\ nextItem = 1
  /\ drain = [d \in Drains |-> IdleDrain]
  /\ prunes = << >>
  /\ remoteOk = [id \in Items |-> 0]
  /\ remoteFail = [id \in Items |-> 0]
  /\ allQueues = "none"
  /\ mail = [d \in 1..MaxMails |-> IdleMail]
  /\ relaySends = [id \in 1..MaxKey |-> 0]
  /\ InitTracking

NextEmail ==
  \/ \E s \in Stores : SaveRoute(s, NoUser)
  \/ SaveQueueEmail
  \/ \E p \in Passes : SyncAuth(p)
  \/ OnlineEvent
  \/ SettleTimer
  \/ OfflineEvent
  \/ \E d \in 1..MaxMails : MailQuery(d)
  \/ \E d \in 1..MaxMails : MailNotConfigured(d)
  \/ \E d \in 1..MaxMails : MailSendOk(d)
  \/ \E d \in 1..MaxMails : MailSendFail(d)

SpecEmail == InitEmail /\ [][NextEmail]_vars

(* The processEmailQueue calls of a session that starts with empty stores,  *)
(* with the relay library loaded or not and the relay configured: saves of a *)
(* signed-in caller, their inline uploads, the listeners, the settle timers, *)
(* the passes, which end for want of a user, and the loops of the calls.  A  *)
(* save is called and an 'online' event fires while no loop is under way;    *)
(* the calls of a save under way and of an event can still overlap.          *)
InitDrain ==
  /\ dbOpen = TRUE
  /\ isOnline \in BOOLEAN
  /\ syncInProgress = FALSE
  /\ emailJsLoaded \in BOOLEAN
  /\ currentUser = NoUser
  /\ store = [s \in Stores |-> << >>]
  /\ nextKey = [s \in Stores |-> 1]
  /\ email_queue = << >>
  /\ cloudDocs = [s \in Stores |-> [k \in Keys |-> 0]]
  /\ save = IdleSave
  /\ sync = [p \in Passes |-> IdleSync]
  /\ single = IdleSingle
  /\ clear = IdleClear
  /\ syncNotice = "none"
  /\ settleTimers = 0
  /\ flat = [q \in Queues |-> << >>]
  /\ nextItem = 1
  /\ drain = [d \in Drains |-> IdleDrain]
  /\ prunes = << >>
  /\ remoteOk = [id \in Items |-> 0]
  /\ remoteFail = [id \in Items |-> 0]
  /\ allQueues = "none"
  /\ emailConfig = TRUE
  /\ objectStoreNames = StoreNames
  /\ upgrades = 0
  /\ mail = [d \in 1..MaxMails |-> IdleMail]
  /\ relaySends = [id \in 1..MaxKey |-> 0]
  /\ InitTracking

noMail == freeMails = 1..MaxMails

NextDrain ==
  \/ \E s \in Stores, u \in Users : noMail /\ SaveRoute(s, u)
  \/ SaveQueueEmail
  \/ SaveUploadOk
  \/ SaveUploadFail
  \/ \E p \in Passes : SyncAuth(p)
  \/ noMail /\ OnlineEvent
  \/ SettleTimer
  \/ OfflineEvent
  \/ \E d \in 1..MaxMails : MailQuery(d)
  \/ \E d \in 1..MaxMails : MailSendOk(d)
  \/ \E d \in 1..MaxMails : MailSendFail(d)

SpecDrain == InitDrain /\ [][NextDrain]_vars

(* The road of a record saved offline to the remote store, in a session of a *)
(* signed-in user that may find stored records: saves made and finished      *)
(* offline, the buttons, the 'online' listener, its settle timer and the     *)
(* passes, with remote writes that succeed and connectivity that stays up    *)
(* while a settle timer is pending.  A timer that is set fires, and an       *)
(* awaited promise settles: the steps of a save and of a pass are taken.     *)
InitLive ==
  \/ /\ dbOpen = TRUE
     /\ isOnline \in BOOLEAN
     /\ syncInProgress = FALSE
     /\ emailJsLoaded = FALSE
     /\ emailConfig = FALSE
     /\ objectStoreNames = StoreNames
     /\ upgrades = 0
     /\ currentUser \in Users
     /\ \E r, g \in 0..MaxStored :
           /\ r + g <= MaxStored
           /\ store = [s \in Stores |->
                         [k \in 1..(IF s = "pending_routes" THEN r ELSE g) |-> pendingRoute]]
           /\ nextKey = [s \in Stores |-> (IF s = "pending_routes" THEN r ELSE g) + 1]
     /\ email_queue = << >>
     /\ cloudDocs = [s \in Stores |-> [k \in Keys |-> 0]]
     /\ save = IdleSave
     /\ sync = [p \in Passes |-> IdleSync]
     /\ single = IdleSingle
     /\ clear = IdleClear
     /\ syncNotice = "none"
     /\ settleTimers = 0
     /\ flat = [q \in Queues |-> << >>]
     /\ nextItem = 1
     /\ drain = [d \in Drains |-> IdleDrain]
     /\ prunes = << >>
     /\ remoteOk = [id \in Items |-> 0]
     /\ remoteFail = [id \in Items |-> 0]
     /\ allQueues = "none"
     /\ mail = [d \in 1..MaxMails |-> IdleMail]
     /\ relaySends = [id \in 1..MaxKey |-> 0]
     /\ InitTracking

NextLive ==
  \/ \E s \in Stores, u \in Users : ~isOnline /\ SaveRouteWithin(s, u, MaxStored)
  \/ SaveQueueEmail
  \/ SyncButton
  \/ \E p \in Passes : SyncAuth(p)
  \/ \E p \in Passes : SyncGetRoutes(p)
  \/ \E p \in Passes : SyncGetGuides(p)
  \/ \E p \in Passes : SyncUploadOk(p)
  \/ \E p \in Passes : SyncFinish(p)
  \/ save.pc # "queueEmail" /\ OnlineEvent
  \/ SettleTimer
  \/ settleTimers = 0 /\ OfflineEvent

SpecLive ==
  /\ InitLive
  /\ [][NextLive]_vars
  /\ WF_vars(SaveQueueEmail)
  /\ WF_vars(SettleTimer)
  /\ \A p \in Passes :
        /\ WF_vars(SyncAuth(p))
        /\ WF_vars(SyncGetRoutes(p))
        /\ WF_vars(SyncGetGuides(p))
        /\ WF_vars(SyncUploadOk(p))
        /\ WF_vars(SyncFinish(p))

(* The road of a photo or survey queued offline to its remote call, in such a *)
(* session: queuePhoto / queueSurvey, the listeners, the poll, the settle     *)
(* timer, the passes they start, the drains and their prune timers.  A timer  *)
(* that is set fires and an awaited promise settles: the steps of a pass and  *)
(* of a drain are taken.  No button is pressed.                               *)
NextFlatLive ==
  \/ \E q \in Queues : QueuePhoto(q)
  \/ \E d \in Drains : DrainOk(d)
  \/ \E d \in Drains : DrainFail(d)
  \/ Prune
  \/ \E p \in Passes : SyncAuth(p)
  \/ \E p \in Passes : SyncGetRoutes(p)
  \/ \E p \in Passes : SyncGetGuides(p)
  \/ \E p \in Passes : SyncUploadOk(p)
  \/ \E p \in Passes : SyncFinish(p)
  \/ OnlineEvent
  \/ SettleTimer
  \/ OfflineEvent
  \/ \E nav \in BOOLEAN : Poll(nav)

SpecFlatLive ==
  /\ InitLive
  /\ [][NextFlatLive]_vars
  /\ WF_vars(SettleTimer)
  /\ WF_vars(Prune)
  /\ \A d \in Drains : WF_vars(DrainOk(d) \/ DrainFail(d))
  /\ \A p \in Passes :
        /\ WF_vars(SyncAuth(p))
        /\ WF_vars(SyncGetRoutes(p))
        /\ WF_vars(SyncGetGuides(p))
        /\ WF_vars(SyncUploadOk(p))
        /\ WF_vars(SyncFinish(p))

(* The module from its construction on: initialize() opens the database, and *)
(* saves, the buttons and their passes and the sign-in may come before or    *)
(* after that.  The stores are as an earlier session has left them.          *)
InitClosed ==
  /\ dbOpen = FALSE
  /\ isOnline \in BOOLEAN
  /\ syncInProgress = FALSE
  /\ emailJsLoaded = FALSE
  /\ emailConfig = FALSE
  /\ objectStoreNames = StoreNames
  /\ upgrades = 0
  /\ currentUser = NoUser
  /\ \E r, g \in 0..MaxStored :
        /\ r + g <= MaxStored
        /\ store = [s \in Stores |->
                      [k \in 1..(IF s = "pending_routes" THEN r ELSE g) |-> pendingRoute]]
        /\ nextKey = [s \in Stores |-> (IF s = "pending_routes" THEN r ELSE g) + 1]
  /\ email_queue = << >>
  /\ cloudDocs = [s \in Stores |-> [k \in Keys |-> 0]]
  /\ save = IdleSave
  /\ sync = [p \in Passes |-> IdleSync]
  /\ single = IdleSingle
  /\ clear = IdleClear
  /\ syncNotice = "none"
  /\ settleTimers = 0
  /\ flat = [q \in Queues |-> << >>]
  /\ nextItem = 1
  /\ drain = [d \in Drains |-> IdleDrain]
  /\ prunes = << >>
  /\ remoteOk = [id \in Items |-> 0]
  /\ remoteFail = [id \in Items |-> 0]
  /\ allQueues = "none"
  /\ mail = [d \in 1..MaxMails |-> IdleMail]
  /\ relaySends = [id \in 1..MaxKey |-> 0]
  /\ InitTracking

NextOpen ==
  \/ OpenDatabase
  \/ \E s \in Stores, u \in Users \cup {NoUser} : SaveRoute(s, u)
  \/ SaveQueueEmail
  \/ SaveUploadOk
  \/ SaveUploadFail
  \/ SyncButton
  \/ \E p \in Passes : SyncAuth(p)
  \/ \E p \in Passes : SyncGetRoutes(p)
  \/ \E p \in Passes : SyncGetGuides(p)
  \/ \E p \in Passes : SyncUploadOk(p)
  \/ \E p \in Passes : SyncUploadFail(p)
  \/ \E p \in Passes : SyncFinish(p)
  \/ AuthChange

SpecOpen == InitClosed /\ [][NextOpen]_vars

(* The connectivity monitor over the stores and the flat queues at once, in *)
(* a session of an anonymous user that finds stored records: the listeners,  *)
(* the poll, the settle timers, the passes they start, which end for want of *)
(* a user, queuePhoto / queueSurvey called while no drain awaits a remote    *)
(* call, the drains and their prune timers.                                  *)
NextOffline ==
  \/ \E q \in Queues : noDrain /\ QueuePhoto(q)
  \/ \E d \in Drains : DrainOk(d)
  \/ \E d \in Drains : DrainFail(d)
  \/ Prune
  \/ \E p \in Passes : SyncAuth(p)
  \/ OnlineEvent
  \/ SettleTimer
  \/ OfflineEvent
  \/ \E nav \in BOOLEAN : Poll(nav)

SpecOffline == InitStored /\ [][NextOffline]_vars

(* The settle timer in a session of a signed-in user that finds stored       *)
(* records and their email entries, with the relay library loaded and the    *)
(* relay not configured (the default settings): the 'online' and 'offline'   *)
(* listeners, the timers, the passes and the processEmailQueue calls.  An    *)
(* 'online' event fires while no processEmailQueue loop is under way.        *)
InitSettle ==
  /\ dbOpen = TRUE
  /\ isOnline \in BOOLEAN
  /\ syncInProgress = FALSE
  /\ emailJsLoaded = TRUE
  /\ currentUser \in Users
  /\ \E r, g \in 0..MaxStored :
        /\ r + g <= MaxStored
        /\ store = [s \in Stores |->
                      [k \in 1..(IF s = "pending_routes" THEN r ELSE g) |-> pendingRoute]]
        /\ nextKey = [s \in Stores |-> (IF s = "pending_routes" THEN r ELSE g) + 1]
        /\ email_queue = [i \in 1..(r + g) |->
                            IF i <= r THEN emailItem("pending_routes", i)
                                      ELSE emailItem("pending_guides", i - r)]
  /\ cloudDocs = [s \in Stores |-> [k \in Keys |-> 0]]
  /\ save = IdleSave
  /\ sync = [p \in Passes |-> IdleSync]
  /\ single = IdleSingle
  /\ clear = IdleClear
  /\ syncNotice = "none"
  /\ settleTimers = 0
  /\ flat = [q \in Queues |-> << >>]
  /\ nextItem = 1
  /\ drain = [d \in Drains |-> IdleDrain]
  /\ prunes = << >>
  /\ remoteOk = [id \in Items |-> 0]
  /\ remoteFail = [id \in Items |-> 0]
  /\ allQueues = "none"
  /\ emailConfig = FALSE
  /\ objectStoreNames = StoreNames
  /\ upgrades = 0
  /\ mail = [d \in 1..MaxMails |-> IdleMail]
  /\ relaySends = [id \in 1..MaxKey |-> 0]
  /\ InitTracking

NextSettle ==
  \/ noMail /\ OnlineEvent
  \/ SettleTimer
  \/ OfflineEvent
  \/ \E p \in Passes : SyncAuth(p)
  \/ \E p \in Passes : SyncGetRoutes(p)
  \/ \E p \in Passes : SyncGetGuides(p)
  \/ \E p \in Passes : SyncUploadOk(p)
  \/ \E p \in Passes : SyncUploadFail(p)
  \/ \E p \in Passes : SyncFinish(p)
  \/ \E d \in 1..MaxMails : MailQuery(d)
  \/ \E d \in 1..MaxMails : MailNotConfigured(d)

SpecSettle == InitSettle /\ [][NextSettle]_vars

----------------------------------------------------------------------------
(* Connectivity coming back, by the event and by the poll, in a session of a  *)
(* signed-in user whose records the passes upload: the listeners find         *)
(* something pending at first and nothing pending once the passes are done,   *)
(* with the relay library loaded or not.                                      *)

InitQuiet ==
  /\ dbOpen = TRUE
  /\ isOnline \in BOOLEAN
  /\ syncInProgress = FALSE
  /\ emailJsLoaded \in BOOLEAN
  /\ currentUser \in Users
  /\ \E r, g \in 0..MaxStored :
        /\ r + g <= MaxStored
        /\ store = [s \in Stores |->
                      [k \in 1..(IF s = "pending_routes" THEN r ELSE g) |-> pendingRoute]]
        /\ nextKey = [s \in Stores |-> (IF s = "pending_routes" THEN r ELSE g) + 1]
        /\ email_queue = [i \in 1..(r + g) |->
                            IF i <= r THEN emailItem("pending_routes", i)
                                      ELSE emailItem("pending_guides", i - r)]
  /\ cloudDocs = [s \in Stores |-> [k \in Keys |-> 0]]
  /\ save = IdleSave
  /\ sync = [p \in Passes |-> IdleSync]
  /\ single = IdleSingle
  /\ clear = IdleClear
  /\ syncNotice = "none"
  /\ settleTimers = 0
  /\ flat = [q \in Queues |-> << >>]
  /\ nextItem = 1
  /\ drain = [d \in Drains |-> IdleDrain]
  /\ prunes = << >>
  /\ remoteOk = [id \in Items |-> 0]
  /\ remoteFail = [id \in Items |-> 0]
  /\ allQueues = "none"
  /\ emailConfig = FALSE
  /\ objectStoreNames = StoreNames
  /\ upgrades = 0
  /\ mail = [d \in 1..MaxMails |-> IdleMail]
  /\ relaySends = [id \in 1..MaxKey |-> 0]
  /\ InitTracking

NextQuiet ==
  \/ noMail /\ OnlineEvent
  \/ \E nav \in BOOLEAN : noMail /\ Poll(nav)
  \/ SettleTimer
  \/ OfflineEvent
  \/ \E p \in Passes : SyncAuth(p)
  \/ \E p \in Passes : SyncGetRoutes(p)
  \/ \E p \in Passes : SyncGetGuides(p)
  \/ \E p \in Passes : SyncUploadOk(p)
  \/ \E p \in Passes : SyncUploadFail(p)
  \/ \E p \in Passes : SyncFinish(p)
  \/ \E d \in 1..MaxMails : MailQuery(d)
  \/ \E d \in 1..MaxMails : MailNotConfigured(d)

SpecQuiet == InitQuiet /\ [][NextQuiet]_vars

(* Deletions that race with uploads, in a session of a signed-in user that   *)
(* finds stored records: the buttons and their passes, the Upload button of  *)
(* a card, and the Delete button of a card pressed while a pass or a single  *)
(* upload awaits the remote write of that record.                            *)
uploadInFlight(s, k) ==
  \/ \E p \in Passes : sync[p].pc = "upload" /\ syncStore(p) = s /\ syncKey(p) = k
  \/ single.pc = "upload" /\ single.store = s /\ single.localId = k

NextRace ==
  \/ SyncButton
  \/ \E p \in Passes : SyncAuth(p)
  \/ \E p \in Passes : SyncGetRoutes(p)
  \/ \E p \in Passes : SyncGetGuides(p)
  \/ \E p \in Passes : SyncUploadOk(p)
  \/ \E p \in Passes : SyncUploadFail(p)
  \/ \E p \in Passes : SyncFinish(p)
  \/ \E s \in Stores, k \in Keys : UploadSingleRoute(s, k)
  \/ SingleFind
  \/ SingleUploadOk
  \/ SingleUploadFail
  \/ \E s \in Stores, k \in Keys : uploadInFlight(s, k) /\ DeleteRoute(s, k)

SpecRace == InitLive /\ [][NextRace]_vars

(* The 'Clear uploaded' button in a session of a signed-in user that finds   *)
(* stored records: saves and their inline uploads, the sync buttons and      *)
(* their passes, and clearUploaded.                                          *)
NextClear ==
  \/ \E s \in Stores, u \in Users : SaveRoute(s, u)
  \/ SaveQueueEmail
  \/ SaveUploadOk
  \/ SaveUploadFail
  \/ SyncButton
  \/ \E p \in Passes : SyncAuth(p)
  \/ \E p \in Passes : SyncGetRoutes(p)
  \/ \E p \in Passes : SyncGetGuides(p)
  \/ \E p \in Passes : SyncUploadOk(p)
  \/ \E p \in Passes : SyncUploadFail(p)
  \/ \E p \in Passes : SyncFinish(p)
  \/ ClearUploaded
  \/ ClearGetRoutes
  \/ ClearGetGuides
  \/ ClearDelete

SpecClear == InitLive /\ [][NextClear]_vars

(* The opening of the database: a database that is new, or one an earlier    *)
(* session has left with records and their email entries; the upgrade        *)
(* handler, which the browser may run again before it hands the connection   *)
(* over, then the saves and deletions of an anonymous user.                  *)
InitSchema ==
  /\ dbOpen = FALSE
  /\ isOnline \in BOOLEAN
  /\ syncInProgress = FALSE
  /\ emailJsLoaded = FALSE
  /\ currentUser = NoUser
  /\ \/ /\ objectStoreNames = {}
        /\ store = [s \in Stores |-> << >>]
        /\ nextKey = [s \in Stores |-> 1]
        /\ email_queue = << >>
     \/ /\ objectStoreNames = StoreNames
        /\ \E r, g \in 0..MaxStored :
              /\ r + g <= MaxStored
              /\ store = [s \in Stores |->
                            [k \in 1..(IF s = "pending_routes" THEN r ELSE g) |->
                               pendingRoute]]
              /\ nextKey = [s \in Stores |->
                              (IF s = "pending_routes" THEN r ELSE g) + 1]
              /\ email_queue = [i \in 1..(r + g) |->
                                  IF i <= r THEN emailItem("pending_routes", i)
                                            ELSE emailItem("pending_guides", i - r)]
  /\ upgrades = 0
  /\ cloudDocs = [s \in Stores |-> [k \in Keys |-> 0]]
  /\ save = IdleSave
  /\ sync = [p \in Passes |-> IdleSync]
  /\ single = IdleSingle
  /\ clear = IdleClear
  /\ syncNotice = "none"
  /\ settleTimers = 0
  /\ flat = [q \in Queues |-> << >>]
  /\ nextItem = 1
  /\ drain = [d \in Drains |-> IdleDrain]
  /\ prunes = << >>
  /\ remoteOk = [id \in Items |-> 0]
  /\ remoteFail = [id \in Items |-> 0]
  /\ allQueues = "none"
  /\ emailConfig = FALSE
  /\ mail = [d \in 1..MaxMails |-> IdleMail]
  /\ relaySends = [id \in 1..MaxKey |-> 0]
  /\ InitTracking

NextSchema ==
  \/ UpgradeNeeded
  \/ OpenDatabase
  \/ \E s \in Stores : SaveRouteWithin(s, NoUser, MaxStored)
  \/ SaveQueueEmail
  \/ \E s \in Stores, k \in Keys : DeleteRoute(s, k)

SpecSchema == InitSchema /\ [][NextSchema]_vars

(* The pending-uploads modal in such a session: the Upload and Delete buttons *)
(* of its cards, which may be stale, pressed by a user who signs in and out.  *)
NextSingle ==
  \/ \E s \in Stores, k \in Keys : UploadSingleRoute(s, k)
  \/ SingleFind
  \/ SingleUploadOk
  \/ SingleUploadFail
  \/ \E s \in Stores, k \in Keys : DeleteRoute(s, k)
  \/ AuthChange

SpecSingle == InitStored /\ [][NextSingle]_vars

----------------------------------------------------------------------------
(* The tracking controller alone, from its construction                       *)

NextTracking ==
  \/ start
  \/ stop
  \/ togglePause
  \/ \E w \in 1..MaxWatches : handlePositionUpdate(w)
  \/ \E w \in 1..MaxWatches : handlePositionError(w)
  \/ PromptAnswered
  \/ cleanup

SpecTracking == Init /\ [][NextTracking]_vars

----------------------------------------------------------------------------
(* Properties of the sync orchestrator *)

\* the passes that are past their entry
runningPasses == Passes \ freePasses

\* a step in which syncAllPending is called: a button, the settle timer with
\* isOnline still true, the poll on an offline -> online flip with records
\* pending
syncAllPendingCalled ==
  \/ SyncButton
  \/ SettleTimer /\ isOnline
  \/ Poll(TRUE) /\ ~isOnline /\ getPendingCount > 0

\* C1: when syncAllPending is called while another pass is running, the call
\* returns at once without a remote write and without a change of any store, so
\* at most one pass is ever past its entry and the remote writes of passes all
\* come from that one.
C1_OnePass ==
  /\ [](Cardinality(runningPasses) <= 1)
  /\ [][syncInProgress /\ syncAllPendingCalled
          => UNCHANGED <<sync, syncInProgress, storeVars, cloudVars>>]_vars

\* a call has been turned away while the running pass was at its uploads
C1_Witness ==
  /\ syncNotice = "in_progress"
  /\ \E p \in Passes : sync[p].pc = "upload"

\* the records of store s, as (store, key) pairs over both stores
Records == {sk \in Stores \X Keys : sk[2] \in DOMAIN store[sk[1]]}
rec(sk) == store[sk[1]][sk[2]]
rec2(sk) == store'[sk[1]][sk[2]]

\* C2: under every interleaving of saves, passes, single uploads, retry
\* increments and connectivity events, the status of a record changes only
\* from pending to uploaded.
C2_StatusMonotonic ==
  [][\A sk \in Records :
        sk[2] \in DOMAIN store'[sk[1]] /\ rec2(sk).status # rec(sk).status
        => rec(sk).status = "pending" /\ rec2(sk).status = "uploaded"]_vars

\* a record is uploaded and a failed attempt of a pass has been counted on it
C2_Witness ==
  \E sk \in Records : rec(sk).status = "uploaded" /\ rec(sk).retryCount > 0

\* C3: every record is either pending with a null cloudId, or uploaded with a
\* cloudId and an uploadedAt that are not null, and never both.
C3_StatusCloudId ==
  \A sk \in Records :
     LET isPending == rec(sk).status = "pending" /\ rec(sk).cloudId = NoId
         isUploaded == /\ rec(sk).status = "uploaded"
                       /\ rec(sk).cloudId # NoId
                       /\ rec(sk).uploadedAt # NoId
     IN (isPending \/ isUploaded) /\ ~(isPending /\ isUploaded)

\* a pass has marked a record uploaded and is at its end
C3_Witness ==
  /\ \E p \in Passes : sync[p].pc = "finish"
  /\ \E sk \in Records : rec(sk).status = "uploaded" /\ rec(sk).cloudId # NoId

\* C4 as stated: a saveRoute / saveTrailGuide call made while isOnline is false
\* creates a pending record with retryCount 0 and a null cloudId, never tries a
\* remote write and returns the localId with a null cloud id.
C4_SavedOffline ==
  /\ [][\A s \in Stores :
          save'.pc = "queueEmail" /\ save.pc # "queueEmail" /\ save'.store = s
          => /\ save'.localId \notin DOMAIN store[s]
             /\ store'[s] = Add(store[s], save'.localId, pendingRoute)]_vars
  /\ [][save.pc = "queueEmail" /\ ~save.onlineAtCall /\ save' # save
          => /\ save'.pc = "returned"
             /\ save'.retLocal = save.localId
             /\ save'.retCloud = NoId
             /\ UNCHANGED <<store, cloudDocs>>]_vars

\* C4, amended: the call creates a pending record with retryCount 0 and a null
\* cloudId; if isOnline is false when the call reads it, after its two local
\* writes, the call tries no remote write and returns the localId with a null
\* cloud id.
C4_SavedOfflineAtCheck ==
  [][/\ \A s \in Stores :
          save'.pc = "queueEmail" /\ save.pc # "queueEmail" /\ save'.store = s
          => /\ save'.localId \notin DOMAIN store[s]
             /\ store'[s] = Add(store[s], save'.localId, pendingRoute)
     /\ save.pc = "queueEmail" /\ ~isOnline /\ save' # save
          => /\ save'.pc = "returned"
             /\ save'.retLocal = save.localId
             /\ save'.retCloud = NoId
             /\ UNCHANGED <<store, cloudDocs>>]_vars

\* a call has found isOnline false and has returned, the record pending
C4_Witness ==
  /\ save.pc = "returned"
  /\ save.toast = "saved locally"
  /\ save.retCloud = NoId
  /\ ~isOnline
  /\ store[save.store][save.localId] = pendingRoute

C6_AtMostOneWrite ==
  \A s \in Stores, k \in Keys : cloudDocs[s][k] <= 1

\* C7: once a record has a cloudId and an uploadedAt, no step changes them.
C7_CloudIdImmutable ==
  [][\A sk \in Records :
        rec(sk).cloudId # NoId /\ sk[2] \in DOMAIN store'[sk[1]]
        => /\ rec2(sk).cloudId = rec(sk).cloudId
           /\ rec2(sk).uploadedAt = rec(sk).uploadedAt]_vars

----------------------------------------------------------------------------
(* Properties of the flat queues *)

\* the ids of the items of an array
idsOf(items) == {items[i].id : i \in 1..Len(items)}

\* C8: an item that localStorage holds with status failed and retryCount 3 is
\* passed over by every drain: no drain awaits the remote call of an item that
\* it has read in that state.
C8_FailedSkipped ==
  \A d \in Drains :
     drain[d].pc = "remote"
     => LET x == drain[d].items[drain[d].i]
        IN ~(x.status = "failed" /\ x.retryCount = RetryLimit)

\* C9: with drains that run one after the other and whose remote calls all
\* fail, an item has status pending and retryCount k after k < 3 drains, and
\* status failed and retryCount 3 after the third.
C9_RetryCountCountsFailures ==
  \A q \in Queues : \A i \in 1..Len(flat[q]) :
     LET x == flat[q][i]
         k == remoteFail[x.id]
     IN noDrain /\ remoteOk[x.id] = 0 /\ k <= RetryLimit
        => /\ k < RetryLimit => x.status = "pending" /\ x.retryCount = k
           /\ k = RetryLimit => x.status = "failed" /\ x.retryCount = RetryLimit

\* C10: under every interleaving of queuePhoto / queueSurvey, the drains and
\* their prune timers, an item leaves the array in localStorage only when its
\* status is uploaded / submitted.
C10_LeavesOnlyWhenDone ==
  [][\A q \in Queues : \A i \in 1..Len(flat[q]) :
        flat[q][i].status # Done(q) => flat[q][i].id \in idsOf(flat'[q])]_vars

\* C11: under every interleaving of the drains that queuePhoto / queueSurvey
\* start and the drains that processAllQueues starts, the remote call of an
\* item succeeds at most once.
C11_AtMostOneRemoteWrite ==
  \A id \in Items : remoteOk[id] <= 1

----------------------------------------------------------------------------
(* Properties of the connectivity monitor *)

\* a syncAllPending call has been made in the step: a pass has started or the
\* call has returned early with its message
syncAllPendingReturned ==
  \/ syncNotice' = "in_progress" /\ UNCHANGED <<sync, syncInProgress>>
  \/ /\ syncInProgress' /\ ~syncInProgress
     /\ \E p \in Passes : sync[p].pc = "idle" /\ sync'[p].pc = "auth"

\* C12: an 'online' event that finds N > 0 records pending sets one settle
\* timer, whatever N is, and calls syncAllPending for none of them; the timer,
\* when it fires with isOnline still true, makes the one call.
C12_OneSettleTimer ==
  [][/\ OnlineEvent /\ getPendingCount > 0
        => /\ settleTimers' = settleTimers + 1
           /\ UNCHANGED <<sync, syncInProgress, syncNotice, storeVars, cloudVars>>
     /\ SettleTimer /\ isOnline
        => settleTimers' = settleTimers - 1 /\ syncAllPendingReturned]_vars

\* an 'online' event has found two records pending: one timer is set and no
\* pass has started
C12_Witness ==
  /\ getPendingCount = 2
  /\ settleTimers = 1
  /\ isOnline
  /\ runningPasses = {}
  /\ cloudDocs = [s \in Stores |-> [k \in Keys |-> 0]]

\* C13: a poll that finds isOnline changed from false to true with records
\* pending handles it as the 'online' listener does: it sets a settle timer and
\* calls syncAllPending only when the timer fires with isOnline still true, so
\* the poll's own step starts no pass and makes no call.
C13_PollSettles ==
  [][Poll(TRUE) /\ ~isOnline /\ getPendingCount > 0
        => /\ settleTimers' = settleTimers + 1
           /\ UNCHANGED <<sync, syncInProgress, syncNotice>>]_vars

\* C14: when the 'online' listener and the poll both act on one restoration,
\* whether their syncAllPending calls overlap or follow one another, the passes
\* they start write no record to the remote store more than once, and every
\* record stays either pending with a null cloudId or uploaded with a cloudId
\* and an uploadedAt.
C14_DuplicateTriggers ==
  /\ \A s \in Stores, k \in Keys : cloudDocs[s][k] <= 1
  /\ \A sk \in Records :
        \/ rec(sk).status = "pending" /\ rec(sk).cloudId = NoId
        \/ rec(sk).status = "uploaded" /\ rec(sk).cloudId # NoId /\ rec(sk).uploadedAt # NoId

\* the pass of one trigger has uploaded a record and has another to go, the
\* call of the other trigger has been turned away, and the settle timer has
\* fired
C14_Witness ==
  /\ syncNotice = "in_progress"
  /\ settleTimers = 0
  /\ \E p \in Passes : sync[p].pc = "upload"
  /\ \E sk \in Records : rec(sk).status = "uploaded"
  /\ getPendingCount = 1

\* C17: a record that is in its store, saved while offline, when an 'online'
\* event finds it pending comes to have status uploaded and a cloudId, the user
\* being signed in, connectivity staying up until the settle timer has fired,
\* the remote writes succeeding and the record not being deleted.
C17_EventuallyUploaded ==
  \A sk \in Stores \X Keys :
     [](settleTimers > 0 /\ sk \in Records
          => <>(/\ sk \in Records
                /\ rec(sk).status = "uploaded"
                /\ rec(sk).cloudId # NoId))

todo(r) == ({"pending_routes"} \X r.todoR) \cup ({"pending_guides"} \X r.todoG)

\* C19: a pass sets out with the routes and the guides that are pending when
\* it reads the stores; each of its steps attempts one of them, with a remote
\* write that succeeds or fails, and takes that one off its list, and the pass
\* ends only when none is left: a failure does not end the pass, and each
\* record of the list is attempted once, whatever happens to the others.
C19_BatchIsolation ==
  [][\A p \in Passes :
        /\ sync[p].pc = "getGuides" /\ sync'[p].pc = "upload"
           => /\ sync'[p].todoR = sync[p].todoR
              /\ sync'[p].todoG = pendingKeys(store["pending_guides"])
        /\ sync[p].pc = "upload" /\ sync'[p] # sync[p]
           => \E sk \in todo(sync[p]) :
                 /\ \/ cloudDocs'[sk[1]][sk[2]] = cloudDocs[sk[1]][sk[2]] + 1
                    \/ rec2(sk).retryCount = rec(sk).retryCount + 1
                 /\ todo(sync'[p]) = todo(sync[p]) \ {sk}
                 /\ sync'[p].pc = IF todo(sync'[p]) = {} THEN "finish" ELSE "upload"
        /\ sync'[p].pc = "finish" => todo(sync'[p]) = {}]_vars

\* the remote write of the first record of a pass has failed and the pass is
\* at its second record, no remote write made so far
C19_Witness ==
  /\ cloudDocs = [s \in Stores |-> [k \in Keys |-> 0]]
  /\ \E p \in Passes :
        /\ sync[p].pc = "upload"
        /\ \E sk \in todo(sync[p]) :
              /\ todo(sync[p]) = {sk}
              /\ rec(sk).retryCount = 0
              /\ \E sk2 \in Records \ {sk} :
                    rec(sk2).status = "pending" /\ rec(sk2).retryCount = 1

\* the step adds one to the retryCount of record sk and leaves it pending
failureCounted(sk) ==
  /\ rec2(sk).retryCount = rec(sk).retryCount + 1
  /\ rec2(sk).status = "pending"

\* C20: every remote write of a record that fails, be it in a pass, in
\* uploadSingleRoute / uploadSingleGuide or in the inline upload of saveRoute /
\* saveTrailGuide, adds one to the retryCount of the record and leaves its
\* status pending.
C20_FailureCounts ==
  [][/\ \A p \in Passes : SyncUploadFail(p) => failureCounted(<<syncStore(p), syncKey(p)>>)
     /\ SingleUploadFail => failureCounted(<<single.store, single.localId>>)
     /\ SaveUploadFail => failureCounted(<<save.store, save.localId>>)]_vars

\* C21: an uploadSingleRoute / uploadSingleGuide call that finds no user signed
\* in makes no remote write, changes no store and ends with an error message
\* shown to the user; with a user and a remote write that succeeds, the call
\* marks the record it was called for uploaded, with the id of the new
\* document, and changes no other record.
C21_SingleUpload ==
  [][/\ \A s \in Stores, k \in Keys :
          UploadSingleRoute(s, k) /\ currentUser = NoUser
          => /\ syncNotice' = "sign_in"
             /\ single' = IdleSingle
             /\ UNCHANGED <<storeVars, cloudVars>>
     /\ SingleUploadOk
        => LET a == <<single.store, single.localId>>
           IN /\ cloudDocs' = addDoc(a[1], a[2])
              /\ a \in Records
                 => rec2(a).status = "uploaded" /\ rec2(a).cloudId = docId(a[1], a[2])
              /\ \A sk \in Records \ {a} : rec2(sk) = rec(sk)
              /\ \A s \in Stores : DOMAIN store'[s] = DOMAIN store[s]]_vars

\* a call made with nobody signed in has ended with its message: the records
\* are pending as they were and no document has been written
C21_Witness ==
  /\ syncNotice = "sign_in"
  /\ currentUser = NoUser
  /\ single = IdleSingle
  /\ getPendingCount = 2
  /\ cloudDocs = [s \in Stores |-> [k \in Keys |-> 0]]

\* C22: a saveRoute / saveTrailGuide call made before the database is open
\* rejects and does nothing else: it adds no record and no entry of the email
\* queue and tries no remote write, then or later.
C22_SaveBeforeOpen ==
  [][/\ \A s \in Stores, u \in Users \cup {NoUser} :
          SaveRoute(s, u) /\ ~dbOpen
          => save'.pc = "rejected" /\ UNCHANGED <<storeVars, cloudVars, mailVars>>
     /\ save.pc = "rejected" /\ save' # save
        => save'.pc \in {"queueEmail", "rejected"} /\ save'.toast = "none"]_vars

\* a call of a signed-in user has been rejected, online, with the database
\* closed: the stores are empty, no entry is queued, no document exists
C22_Witness ==
  /\ save.pc = "rejected"
  /\ ~dbOpen
  /\ isOnline
  /\ currentUser # NoUser
  /\ store = [s \in Stores |-> << >>]
  /\ email_queue = << >>
  /\ cloudDocs = [s \in Stores |-> [k \in Keys |-> 0]]

----------------------------------------------------------------------------
(* Properties of the schema *)

\* C25: the upgrade handler run on a database that has the three object stores
\* creates none, deletes none and leaves every record of every store, and the
\* key generators, as they are.
C25_UpgradeIdempotent ==
  [][UpgradeNeeded /\ objectStoreNames = StoreNames
       => UNCHANGED <<objectStoreNames, store, nextKey, email_queue>>]_vars

\* the handler has run on a database that held records and email entries
C25_Witness ==
  /\ ~dbOpen
  /\ upgrades >= 1
  /\ objectStoreNames = StoreNames
  /\ \E s \in Stores : DOMAIN store[s] # {}
  /\ email_queue # << >>

----------------------------------------------------------------------------
(* Properties of the flat queues under the connectivity monitor *)

\* item id is in a flat queue with status pending
queuedPending(id) ==
  \E q \in Queues : \E j \in 1..Len(flat[q]) :
     flat[q][j].id = id /\ flat[q][j].status = "pending"

\* a remote call has been made for item id, or a drain call that is under way
\* holds it in the part of its array the loop has yet to go over
takenUp(id) ==
  \/ remoteOk[id] + remoteFail[id] > 0
  \/ \E d \in Drains :
        /\ drain[d].pc = "remote"
        /\ \E j \in drain[d].i..Len(drain[d].items) : drain[d].items[j].id = id

\* C24: a photo or survey that is pending in its queue while connectivity is
\* up is taken up by a drain, or connectivity goes down again first, with no
\* further enqueue and no button pressed.
C24_EventuallyAttempted ==
  \A id \in Items :
     [](queuedPending(id) /\ isOnline => <>(takenUp(id) \/ ~isOnline))

\* the retryCount of the item of the array that has the id
retryCountOf(items, id) ==
  LET j == CHOOSE j \in 1..Len(items) : items[j].id = id
  IN items[j].retryCount

\* C29: no step lowers the retryCount of a record of pending_routes or
\* pending_guides, of an entry of email_queue or of an item of a flat queue
\* that is there before and after it, and none takes the sent flag of an
\* entry from true to false.
C29_RetryNeverDecreases ==
  [][/\ \A s \in Stores : \A k \in DOMAIN store[s] \cap DOMAIN store'[s] :
           store'[s][k].retryCount >= store[s][k].retryCount
     /\ \A id \in DOMAIN email_queue \cap DOMAIN email_queue' :
           /\ email_queue'[id].retryCount >= email_queue[id].retryCount
           /\ email_queue[id].sent => email_queue'[id].sent
     /\ \A q \in Queues : \A id \in idsOf(flat[q]) \cap idsOf(flat'[q]) :
           retryCountOf(flat'[q], id) >= retryCountOf(flat[q], id)]_vars

\* C30: the total getAllPendingCount returns is the number of photos with
\* status pending, plus the surveys with status pending, plus the pending
\* routes, plus the pending guides.
C30_TotalCountsPending ==
  getAllPendingCount.total =
     pendingLength(flat["photos"]) + pendingLength(flat["surveys"])
     + Cardinality(pendingKeys(store["pending_routes"]))
     + Cardinality(pendingKeys(store["pending_guides"]))

\* C31: a processAllQueues call made while isOnline is true does not reject
\* (it goes on to await its three parts and to report the remaining total);
\* one made while isOnline is false starts no drain and changes nothing.
C31_ProcessAllCompletes ==
  [][ProcessAllQueues
       => IF isOnline
          THEN allQueues' # "rejected"
          ELSE UNCHANGED <<flat, drain, prunes, storeVars, cloudVars, sync,
                           syncInProgress, mailVars>>]_vars

\* C32: a settle timer that fires while isOnline is false calls no
\* syncAllPending: no pass starts, the in-progress flag and the notice of the
\* last call stay, and no record and no remote document is written.
C32_TimerOfflineNoSync ==
  [][SettleTimer /\ ~isOnline
       => UNCHANGED <<sync, syncInProgress, syncNotice, store, cloudDocs>>]_vars

\* an 'online' event has called processEmailQueue and, with records pending,
\* has set the timer; the timer has fired, offline, and no pass has run: every
\* record is as it was found and nothing has been written to the remote store
C32_Witness ==
  /\ ~isOnline
  /\ settleTimers = 0
  /\ \E d \in 1..MaxMails : mail[d].pc = "query"
  /\ getPendingCount > 0
  /\ \A s \in Stores : \A k \in DOMAIN store[s] : store[s][k] = pendingRoute
  /\ \A s \in Stores : \A k \in Keys : cloudDocs[s][k] = 0
  /\ \A p \in Passes : sync[p].pc = "idle"
  /\ syncNotice = "none"

\* C33: syncInProgress is true exactly while a syncAllPending call is past
\* its entry, and the step that ends a pass (its normal end, no user, nothing
\* pending, a store that throws) leaves the flag false.
C33_FlagOnlyWhilePass ==
  /\ [](syncInProgress <=> runningPasses # {})
  /\ [][\A p \in Passes :
          sync[p].pc # "idle" /\ sync'[p].pc = "idle" => ~syncInProgress']_vars

\* a pass has uploaded a record (no save has been called) and has ended, and
\* the flag is false
C33_Witness ==
  /\ ~syncInProgress
  /\ runningPasses = {}
  /\ save.pc = "idle"
  /\ \E s \in Stores : \E k \in DOMAIN store[s] : store[s][k].status = "uploaded"

\* localId k of store s has been given out and its record is gone
deleted(s, k) == k < nextKey[s] /\ k \notin DOMAIN store[s]

\* C34: a record that has been deleted is never in its store again, and the
\* step that ends the upload of a deleted record, with success or with
\* failure, in a pass or in a single upload, leaves the stores as they are.
C34_DeletedStaysDeleted ==
  [][/\ \A s \in Stores : \A k \in Keys : deleted(s, k) => k \notin DOMAIN store'[s]
     /\ \A p \in Passes :
           /\ sync[p].pc = "upload"
           /\ sync'[p] # sync[p]
           /\ deleted(syncStore(p), syncKey(p))
           => store' = store
     /\ single.pc = "upload" /\ single' # single /\ deleted(single.store, single.localId)
           => store' = store]_vars

\* a record has been deleted while its upload was awaited, and that upload
\* has ended since
C34_Witness ==
  \E s \in Stores : \E k \in Keys :
     /\ deleted(s, k)
     /\ ~uploadInFlight(s, k)
     /\ cloudDocs[s][k] > 0

\* C35: every record a step of clearUploaded removes has status uploaded when
\* it is removed, and the step removes nothing else, whatever the saves and
\* the passes have done since the call read its lists.
C35_ClearsOnlyUploaded ==
  [][ClearDelete
       => \A s \in Stores : \A k \in DOMAIN store[s] :
             \/ store[s][k].status = "uploaded"
             \/ k \in DOMAIN store'[s] /\ store'[s][k] = store[s][k]]_vars

\* clearUploaded has removed a record and has ended, and a pending record is
\* still there
C35_Witness ==
  /\ clear.pc = "idle"
  /\ \E s \in Stores : \E k \in Keys : k < nextKey[s] /\ k \notin DOMAIN store[s]
  /\ getPendingCount > 0

\* C36: every item of the arrays localStorage holds that has status pending
\* has a retryCount below 3, and every item that has status failed has a
\* retryCount of 3 or more.
C36_StatusMatchesRetryCount ==
  \A q \in Queues : \A j \in 1..Len(flat[q]) :
     /\ flat[q][j].status = "pending" => flat[q][j].retryCount < RetryLimit
     /\ flat[q][j].status = "failed" => flat[q][j].retryCount >= RetryLimit

\* localStorage holds an item that has failed three times, marked failed, and
\* a pending item
C36_Witness ==
  \E q \in Queues : \E i, j \in 1..Len(flat[q]) :
     /\ flat[q][i].status = "failed"
     /\ flat[q][i].retryCount = RetryLimit
     /\ flat[q][j].status = "pending"

\* no record of pending_routes or pending_guides has status pending
noPendingRecords == \A s \in Stores : pendingKeys(store[s]) = {}

\* C37: a step of the 'online' listener, or of the poll that finds
\* connectivity back, taken while no route or guide record is pending sets no
\* settle timer and calls no syncAllPending (no pass starts, no call is turned
\* away), and it makes the processEmailQueue call of a caller that is online.
C37_NoSyncWhenNothingPending ==
  [][(OnlineEvent \/ (~isOnline /\ Poll(TRUE))) /\ noPendingRecords
       => /\ UNCHANGED <<settleTimers, sync, syncInProgress, syncNotice>>
          /\ processEmailQueueEntry(TRUE)]_vars

\* connectivity has come back in a session that has no record at all: no
\* timer, no pass, and a processEmailQueue call that has asked for the
\* unsent entries
C37_Witness ==
  /\ \A s \in Stores : store[s] = << >>
  /\ isOnline
  /\ \E d \in 1..MaxMails : mail[d].pc = "query"
  /\ settleTimers = 0
  /\ ~syncInProgress
  /\ \A p \in Passes : sync[p].pc = "idle"

\* C38: in every state the tracking controller reaches, paused implies
\* tracking, this.watchId is set exactly when the controller is tracking and
\* not paused, and the watch it names is the one watch the browser holds.
C38_WatchIffTrackingUnpaused ==
  /\ isPaused => isTracking
  /\ watchId # NoId <=> (isTracking /\ ~isPaused)
  /\ watchIDs = IF watchId # NoId THEN {watchId} ELSE {}

\* tracking paused with no watch held, after two watches at least have been
\* registered and cleared (a pause after a resume, or after a stop and a new
\* start)
C38_Witness ==
  /\ isTracking
  /\ isPaused
  /\ watchId = NoId
  /\ watchIDs = {}
  /\ nextWatchId > 2

\* C26: a step of the 'offline' listener, and any step that takes isOnline
\* from true to false, changes nothing but isOnline: no record of a store or
\* of a flat queue, no timer, no pass, no drain and not the in-progress flag.
C26_OfflineOnlyFlag ==
  [][OfflineEvent \/ (isOnline /\ ~isOnline')
       => /\ isOnline' = FALSE
          /\ UNCHANGED <<syncInProgress, cfgVars, storeVars, cloudVars, save, sync,
                         single, syncNotice, connVars, flatVars, mailVars>>]_vars

\* connectivity has gone down under a pass and a drain that are under way
C26_Witness ==
  /\ ~isOnline
  /\ syncInProgress
  /\ settleTimers > 0
  /\ \E p \in Passes : sync[p].pc = "auth"
  /\ \E d \in Drains : drain[d].pc = "remote"
  /\ \E s \in Stores : DOMAIN store[s] # {}

----------------------------------------------------------------------------
(* Properties of the backups by email *)

\* C23: a saveRoute / saveTrailGuide call that succeeds adds one entry to the
\* email queue, with sent = false, retryCount 0 and a copy of the record as it
\* was built at save time, and no other step adds one; the copy stays as it
\* is whatever becomes of the record (marked uploaded, a retry counted,
\* deleted).
C23_BackupSnapshot ==
  /\ [](\A id \in DOMAIN email_queue : email_queue[id].data = pendingRoute)
  /\ [][/\ SaveQueueEmail
           => email_queue' = Add(email_queue, Cardinality(DOMAIN email_queue) + 1,
                                 [type |-> save.store, localId |-> save.localId,
                                  data |-> pendingRoute, sent |-> FALSE,
                                  retryCount |-> 0])
        /\ ~SaveQueueEmail => DOMAIN email_queue' = DOMAIN email_queue
        /\ \A id \in DOMAIN email_queue :
              /\ email_queue'[id].data = email_queue[id].data
              /\ email_queue'[id].type = email_queue[id].type
              /\ email_queue'[id].localId = email_queue[id].localId]_vars

\* the record of an entry has been marked uploaded since the entry was added
C23_Witness ==
  \E id \in DOMAIN email_queue :
     LET e == email_queue[id]
     IN /\ e.data = pendingRoute
        /\ e.localId \in DOMAIN store[e.type]
        /\ store[e.type][e.localId].status = "uploaded"

\* C15: once a processEmailQueue call has sent the backup of an entry, the
\* entry has sent = true and no call, later or running at the same time, has
\* the relay send it again: the relay sends an entry at most once, and an
\* entry it has sent is marked.
C15_SentOnce ==
  \A id \in DOMAIN email_queue :
     /\ relaySends[id] <= 1
     /\ relaySends[id] = 1 => email_queue[id].sent

\* C16: with an incomplete relay configuration, a processEmailQueue call has
\* the relay send nothing and leaves every entry of the queue as it is: no
\* entry gets sent = true without a relay send that resolved.
C16_NotConfiguredNoOp ==
  ~emailConfig
  => \A id \in DOMAIN email_queue :
        /\ relaySends[id] = 0
        /\ email_queue[id] = emailItem(email_queue[id].type, email_queue[id].localId)

\* the step has processEmailQueue call d invoke the relay send of an entry
sendInvoked(d) ==
  /\ mail'[d].pc = "send"
  /\ mail[d].pc # "send" \/ mail'[d].i # mail[d].i

\* C27: no entry of the queue has a retryCount above 3 (each failed send adds
\* one: at most 3 fail), and the relay send of an entry is invoked only while
\* the retryCount the store holds for it is below 3, under any interleaving
\* of the processEmailQueue calls.
C27_RetryBounded ==
  /\ [](\A id \in DOMAIN email_queue : email_queue[id].retryCount <= EmailRetryLimit)
  /\ [][\A d \in 1..MaxMails :
          sendInvoked(d)
          => email_queue'[mail'[d].items[mail'[d].i].id].retryCount < EmailRetryLimit]_vars

\* C28: a processEmailQueue call gets past its first line only with the relay
\* library loaded and isOnline true at the call, and only a call that has got
\* past it has the relay send or changes an entry of the queue: a call made
\* offline or without the library sends nothing and changes no entry.
C28_DrainGuard ==
  [][/\ \A d \in 1..MaxMails :
           mail[d].pc = "idle" /\ mail'[d].pc # "idle" => emailJsLoaded /\ isOnline'
     /\ (\/ relaySends' # relaySends
         \/ \E id \in DOMAIN email_queue : email_queue'[id] # email_queue[id])
        => \E d \in 1..MaxMails : mail[d].pc = "send"]_vars

\* a save of a signed-in caller has taken the offline path (its toast), so it
\* has called processEmailQueue while isOnline was false; the library is
\* loaded, the entry is unsent and no call is past its first line
C28_Witness ==
  /\ emailJsLoaded
  /\ save.pc = "returned"
  /\ save.toast = "saved locally"
  /\ \E id \in DOMAIN email_queue :
        /\ ~email_queue[id].sent
        /\ email_queue[id].localId = save.localId
        /\ email_queue[id].type = save.store
  /\ \A d \in 1..MaxMails : mail[d].pc = "idle"

====
